---- MODULE Spec2Model ----
(***************************************************************************)
(* State-machine model of the sql-storage-adapter package: the adapters'   *)
(* lifecycle and transaction handling, the IndexedDB blob persistence, the *)
(* adapter resolver and the PostgresAdapter's statement translation.       *)
(*                                                                         *)
(* One behaviour exercises one object: `component` names the class that    *)
(* was constructed.  Database content is abstracted to the set of row keys *)
(* present; an INSERT of key k is the mutating statement.                  *)
(*                                                                         *)
(* External engines are modelled by their documented behaviour:            *)
(*   - SQLite (sql.js, better-sqlite3, Capacitor): BEGIN inside a          *)
(*     transaction and COMMIT/ROLLBACK outside one raise an error;         *)
(*     ROLLBACK restores the content as of BEGIN; Database.export()        *)
(*     returns the engine's current content.                               *)
(*   - IndexedDB: readwrite transactions on one object store complete in   *)
(*     the order they were created; a put is applied when it completes.    *)
(*   - pg: a statement sent through the Pool runs on its own (autocommit)  *)
(*     connection; a statement sent through a PoolClient runs in that      *)
(*     client's session, inside its transaction if one is open; BEGIN,     *)
(*     COMMIT and ROLLBACK can each be rejected by the driver, and a       *)
(*     rejected COMMIT or ROLLBACK leaves the transaction aborted.         *)
(*   - better-sqlite3: the function given to db.transaction() runs         *)
(*     synchronously between BEGIN and COMMIT; a build may refuse a        *)
(*     function that returns a promise.                                    *)
(***************************************************************************)
EXTENDS Integers, Sequences, FiniteSets, TLC

\* ------------------------------------------------------------------ bounds
\* row keys a statement can insert
MaxKey == 2
\* KV puts in flight beyond which the auto-save timer does not tick again
MaxPuts == 1
\* performOpen (performClose) invocations in flight at once
MaxInFlight == 2
\* length of options.priority
MaxPriority == 2
\* lexemes in a statement or script handed to the PostgresAdapter
MaxLen == 3
\* values in a positional parameter array
MaxValues == 2
\* operations in one BetterSqliteAdapter.batch call
MaxOps == 2
\* distinct backup keys (timestamps) under the backup prefix
MaxStamp == 4
\* largest ScheduledBackupConfig.maxBackups
MaxBackups == 2
\* path segments in a backup prefix
MaxPrefix == 1
\* scheduled backups one CloudBackupManager begins
MaxScheduled == 2
\* auto-save intervals one IndexedDbAdapter handle can leave set
MaxIntervals == 3
\* record ids in the synchronized table on either side before the first cycle
MaxIds == 1
\* distinct updated_at instants
MaxTime == 2
\* sync cycles one manager runs
MaxCycles == 2

Keys == 1..MaxKey

\* null / non-null references: <<>> is null, <<x>> is a reference holding x
Null == <<>>
Some(x) == <<x>>

\* the sequences over S of length at most n
RECURSIVE SeqsUpTo(_, _)
SeqsUpTo(S, n) ==
  IF n = 0 THEN {<<>>}
  ELSE LET shorter == SeqsUpTo(S, n - 1)
       IN  shorter \cup {Append(q, x) : q \in shorter, x \in S}

VARIABLES
  component,    \* the class under analysis
  pc,           \* the single caller's position: "idle", "fn", "wait", "resume", ...
  cont,         \* the continuation awaiting a promise ("wait"/"resume")
  res,          \* how the awaited promise settled: "ok", "engine", "persist"
  call,         \* record of the caller's current / last call and its outcome
  db,           \* this.db: Null, or the engine holding a set of rows
  txBase,       \* the engine's rollback journal: Null in autocommit, else rows at BEGIN
  idb,          \* IndexedDbAdapter.idb: the KV handle is open
  saveTimer,    \* IndexedDbAdapter.saveTimer is set (interval active)
  dirty,        \* IndexedDbAdapter.dirty
  autoSave,     \* IndexedDbAdapter.autoSave (constructor option)
  blob,         \* the KV store's entry under key "db": Null or exported rows
  puts,         \* KV put requests in flight, oldest first
  closedRows,   \* content of the engine at the moment close() closed it
  filePath,     \* SqlJsAdapter.filePath is set (persistence to a file)
  file,         \* the database file on disk: Null or its rows
  promiseGuard, \* the better-sqlite3 build rejects promise-returning transactions
  pool,         \* PostgresAdapter.pool is set
  transactionalClient, \* PostgresAdapter.transactionalClient: NoClient or a client
  free,         \* the pool's idle clients
  pgRows,       \* rows committed on the Postgres server
  pgTx,         \* per client: Null, or the rows written in its open transaction
  task,         \* per concurrent caller of the PostgresAdapter: its call record
  overlapped,   \* two calls on the PostgresAdapter have been outstanding at once
  state,        \* BaseStorageAdapter.state
  opening,      \* performOpen() invocations still in flight
  closing,      \* performClose() invocations still in flight
  performed,    \* keys whose statement reached the subclass's performRun/...
  ropts,        \* resolveStorageAdapter's inputs: options and environment
  rpc,          \* resolveStorageAdapter's position in its loop
  ridx,         \* index of the candidate the loop is at
  attempts,     \* candidates tried so far, each with how it ended
  errors,       \* the resolver's errors array
  result,       \* Null, or the adapter resolveStorageAdapter returned
  statement,    \* the statement (or script) given to PostgresAdapter.run / exec
  parameters,   \* the parameters given with it
  pending,      \* exec's statements not yet sent
  sent,         \* the queries the call handed to the driver, in order
  bucket,       \* the keys under the backup prefix in the CloudStorageProvider
  maxBackups,   \* ScheduledBackupConfig.maxBackups (0: not set)
  toDelete,     \* cleanupOldBackups: the keys still to be deleted, in order
  dbOptions,    \* createDatabase's options, and whether the runtime has a window
  local,        \* the synchronized table in the primary (local) database: its rows
  remote,       \* the same table in the remote database
  sync,         \* the manager's sync configuration: conflictStrategy, direction
  lastSync,     \* the table's last successful sync stamp
  cycle,        \* the running / last cycle: tables at its start, conflicts found
  mode,         \* sync.mode
  queued,       \* a cycle is enqueued behind the one in progress
  running,      \* sync cycles in progress
  opens,        \* IndexedDbAdapter.open() calls past the `if (this.db)` guard, awaiting
  intervals,    \* auto-save intervals of the handle that are set and not cleared
  intervalId,   \* CloudBackupManager.intervalId is set
  timers,       \* intervals the CloudBackupManager has set and not cleared
  scheduled     \* backups begun by the CloudBackupManager's interval callback

idbVars == <<idb, saveTimer, dirty, autoSave, blob, puts, closedRows>>
engineVars == <<db, txBase>>
callerVars == <<pc, cont, res, call>>
fileVars == <<filePath, file, promiseGuard>>

pgVars == <<pool, transactionalClient, free, pgRows, pgTx, task, overlapped>>

baseVars == <<state, opening, closing, performed>>
resVars == <<ropts, rpc, ridx, attempts, errors, result>>
trVars == <<statement, parameters, pending, sent>>
bkVars == <<bucket, maxBackups, toDelete>>
dbVars == <<dbOptions>>
syncVars == <<local, remote, sync, lastSync, cycle, mode, queued, running>>
lifeVars == <<opens, intervals>>
schedVars == <<intervalId, timers, scheduled>>
utilVars == <<bkVars, dbVars, syncVars, lifeVars, schedVars>>

\* what the single-caller adapters never touch
fixed == <<component, pgVars, baseVars, resVars, trVars, utilVars>>

\* what the PostgresAdapter, apart from the open()/close() call record, never touches
notPg == <<component, pc, cont, res, engineVars, idbVars, fileVars, baseVars, resVars,
          trVars, utilVars>>

\* what the BaseStorageAdapter, apart from the call record, never touches
notBase == <<component, pc, cont, res, engineVars, idbVars, fileVars, pgVars, resVars,
            trVars, utilVars>>

\* what resolveStorageAdapter never touches
notRes == <<component, callerVars, engineVars, idbVars, fileVars, pgVars, baseVars,
           trVars, utilVars>>

\* what the statement translation of the PostgresAdapter never touches
notTr == <<component, cont, res, engineVars, idbVars, fileVars, pgVars, baseVars, resVars,
          utilVars>>

\* what the CloudBackupManager never touches
notBk == <<component, cont, res, engineVars, idbVars, fileVars, pgVars, baseVars, resVars,
          trVars, dbVars, syncVars, lifeVars>>

\* what the sync manager never touches
notSync == <<component, cont, res, engineVars, idbVars, fileVars, pgVars, baseVars, resVars,
            trVars, bkVars, dbVars, lifeVars, schedVars>>

vars == <<component, callerVars, engineVars, idbVars, fileVars, pgVars, baseVars, resVars,
          trVars, utilVars>>

\* ------------------------------------------------------------ call records
\* fnErr: the error fn threw; commit: whether the COMMIT statement took effect;
\* life: what the caller knows of the handle from the calls that returned:
\* "new" (never opened), "open" (open() returned), "failed" (open() threw),
\* "closed" (close() returned); data: the argument of importDatabase or batch;
\* returned: the value the call returned, where the model records it
NoCall == [op |-> "none", outcome |-> "none", err |-> "none",
           fnWrites |-> {}, fnOutcome |-> "none", fnErr |-> "none",
           commit |-> "none", life |-> "new", data |-> Null, returned |-> Null]

NewCall(o) == [NoCall EXCEPT !.op = o, !.outcome = "pending", !.life = call.life]

Resolved(c) ==
  [c EXCEPT !.outcome = "resolved",
            !.life = CASE c.op = "open" -> "open"
                       [] c.op = "close" -> "closed"
                       [] OTHER -> @]
Rejected(c, e) ==
  [c EXCEPT !.outcome = "rejected", !.err = e,
            !.life = IF c.op = "open" THEN "failed" ELSE @]

\* --------------------------------------------------------- SQLite engine
Insert(k) == [sql |-> "INSERT", k |-> k]
Begin == [sql |-> "BEGIN", k |-> 0]
Commit == [sql |-> "COMMIT", k |-> 0]
Rollback == [sql |-> "ROLLBACK", k |-> 0]

\* the statement steps without error
EngineOk(stmt) ==
  CASE stmt.sql = "BEGIN" -> txBase = Null
    [] stmt.sql \in {"COMMIT", "ROLLBACK"} -> txBase # Null
    [] OTHER -> TRUE

\* content of the engine after the statement
EngineDb(stmt) ==
  CASE stmt.sql = "INSERT" -> Some(db[1] \cup {stmt.k})
    [] stmt.sql = "ROLLBACK" -> txBase
    [] OTHER -> db

\* rollback journal after the statement
EngineTx(stmt) ==
  CASE stmt.sql = "BEGIN" -> db
    [] stmt.sql \in {"COMMIT", "ROLLBACK"} -> Null
    [] OTHER -> txBase

\* ------------------------------------------------------ IndexedDbAdapter
IdbInit ==
  /\ idb = FALSE /\ saveTimer = FALSE /\ dirty = FALSE
  /\ blob = Null /\ puts = <<>> /\ closedRows = Null

\* what new SQL.Database(existingData) / new SQL.Database() holds
LoadedRows == IF blob = Null THEN {} ELSE blob[1]

\* saveToIndexedDb: export and put, unless a handle is missing
SaveStarts(dbNew) == idb /\ dbNew # Null

\* persistIfNeeded: an immediate save only while no timer is set
PersistStarts(dbNew) == autoSave /\ ~saveTimer /\ SaveStarts(dbNew)

\* await this.persistIfNeeded(), continuing at `next`
PersistIfNeeded(dbNew, next) ==
  /\ cont' = next
  /\ IF PersistStarts(dbNew)
       THEN /\ puts' = Append(puts, [data |-> dbNew, by |-> "call"])
            /\ pc' = "wait"
            /\ res' = "ok"
       ELSE /\ puts' = puts
            /\ pc' = "resume"
            /\ res' = "ok"

\* run(statement) on an open handle, continuing at `next`
IdbRunStmt(stmt, next) ==
  IF EngineOk(stmt)
    THEN /\ db' = EngineDb(stmt)
         /\ txBase' = EngineTx(stmt)
         /\ dirty' = TRUE
         /\ PersistIfNeeded(EngineDb(stmt), next)
    ELSE /\ UNCHANGED <<db, txBase, dirty, puts>>
         /\ pc' = "resume" /\ cont' = next /\ res' = "engine"

\* an open() that never finds the handle open
IdbNeverAlreadyOpen == FALSE

\* open(): if (this.db) return
IdbAlreadyOpen == db # Null

IdbOpen ==
  /\ component = "indexeddb" /\ pc = "idle"
  /\ IF IdbAlreadyOpen
       THEN UNCHANGED <<db, idb, saveTimer, closedRows>>
       ELSE /\ puts = <<>>
            /\ idb' = TRUE
            /\ db' = Some(LoadedRows)
            /\ saveTimer' = autoSave
            /\ closedRows' = Null
  /\ call' = Resolved(NewCall("open"))
  /\ UNCHANGED <<fileVars, fixed, pc, cont, res, txBase, dirty, autoSave, blob, puts>>

IdbRun(k) ==
  /\ component = "indexeddb" /\ pc = "idle"
  /\ IF db = Null
       THEN /\ call' = Rejected(NewCall("run"), "NotOpen")
            /\ UNCHANGED <<pc, cont, res, db, txBase, dirty, puts>>
       ELSE /\ call' = NewCall("run")
            /\ IdbRunStmt(Insert(k), "run")
  /\ UNCHANGED <<fileVars, fixed, idb, saveTimer, autoSave, blob, closedRows>>

IdbExec(k) ==
  /\ component = "indexeddb" /\ pc = "idle"
  /\ IF db = Null
       THEN /\ call' = Rejected(NewCall("exec"), "NotOpen")
            /\ UNCHANGED <<pc, cont, res, db, dirty, puts>>
       ELSE /\ call' = NewCall("exec")
            /\ db' = Some(db[1] \cup {k})
            /\ dirty' = TRUE
            /\ PersistIfNeeded(Some(db[1] \cup {k}), "exec")
  /\ UNCHANGED <<fileVars, fixed, txBase, idb, saveTimer, autoSave, blob, closedRows>>

IdbAll ==
  /\ component = "indexeddb" /\ pc = "idle"
  /\ call' = IF db = Null THEN Rejected(NewCall("all"), "NotOpen")
                          ELSE Resolved(NewCall("all"))
  /\ UNCHANGED <<fileVars, fixed, pc, cont, res, engineVars, idbVars>>

IdbTransaction ==
  /\ component = "indexeddb" /\ pc = "idle"
  /\ IF db = Null
       THEN /\ call' = Rejected(NewCall("transaction"), "NotOpen")
            /\ UNCHANGED <<pc, cont, res, db, txBase, dirty, puts>>
       ELSE /\ call' = NewCall("transaction")
            /\ IdbRunStmt(Begin, "begin")
  /\ UNCHANGED <<fileVars, fixed, idb, saveTimer, autoSave, blob, closedRows>>

\* fn(this) issues trx.run(INSERT k) and awaits it
IdbFnRun(k) ==
  /\ component = "indexeddb" /\ pc = "fn"
  /\ k \notin db[1]
  /\ call' = [call EXCEPT !.fnWrites = @ \cup {k}]
  /\ IdbRunStmt(Insert(k), "fnrun")
  /\ UNCHANGED <<fileVars, fixed, idb, saveTimer, autoSave, blob, closedRows>>

\* fn(this) resolves: await this.run('COMMIT')
IdbFnResolve ==
  /\ component = "indexeddb" /\ pc = "fn"
  /\ call' = [call EXCEPT !.fnOutcome = "resolved",
                          !.commit = IF EngineOk(Commit) THEN "done" ELSE "failed"]
  /\ IdbRunStmt(Commit, "commit")
  /\ UNCHANGED <<fileVars, fixed, idb, saveTimer, autoSave, blob, closedRows>>

\* fn(this) throws: catch, await this.run('ROLLBACK')
IdbFnThrow ==
  /\ component = "indexeddb" /\ pc = "fn"
  /\ call' = [call EXCEPT !.fnOutcome = "threw", !.fnErr = "fn", !.err = "fn"]
  /\ IdbRunStmt(Rollback, "rollback")
  /\ UNCHANGED <<fileVars, fixed, idb, saveTimer, autoSave, blob, closedRows>>

\* db.close(); idb.close() at the end of close()
IdbFinishClose ==
  /\ db' = Null
  /\ txBase' = Null
  /\ idb' = FALSE
  /\ closedRows' = IF db # Null THEN db ELSE closedRows

IdbClose ==
  /\ component = "indexeddb" /\ pc = "idle"
  /\ saveTimer' = FALSE
  /\ IF dirty /\ SaveStarts(db)
       THEN /\ call' = NewCall("close")
            /\ puts' = Append(puts, [data |-> db, by |-> "call"])
            /\ pc' = "wait" /\ cont' = "close" /\ res' = "ok"
            /\ UNCHANGED <<db, txBase, idb, closedRows>>
       ELSE /\ call' = Resolved(NewCall("close"))
            /\ IdbFinishClose
            /\ UNCHANGED <<pc, cont, res, puts>>
  /\ UNCHANGED <<fileVars, fixed, dirty, autoSave, blob>>

\* new this.SQL.Database(data): the engine importDatabase installs
ImportKeepsEngine(data) == db
ImportedDb(data) == Some(data)

\* importDatabase(data): replace the engine, mark dirty, await saveToIndexedDb()
IdbImport(data) ==
  /\ component = "indexeddb" /\ pc = "idle"
  /\ IF db = Null
       THEN /\ call' = Rejected(NewCall("import"), "NotOpen")
            /\ UNCHANGED <<pc, cont, res, db, txBase, dirty, puts>>
       ELSE /\ call' = [NewCall("import") EXCEPT !.data = Some(data)]
            /\ db' = ImportedDb(data)
            /\ txBase' = Null
            /\ dirty' = TRUE
            /\ cont' = "import" /\ res' = "ok"
            /\ IF SaveStarts(ImportedDb(data))
                 THEN /\ puts' = Append(puts, [data |-> ImportedDb(data), by |-> "call"])
                      /\ pc' = "wait"
                 ELSE /\ puts' = puts
                      /\ pc' = "resume"
  /\ UNCHANGED <<fileVars, fixed, idb, saveTimer, autoSave, blob, closedRows>>

\* the promise the caller awaited has settled: the code after the await
IdbResume ==
  /\ component = "indexeddb" /\ pc = "resume"
  /\ CASE cont \in {"run", "exec", "import"} ->
            /\ call' = IF res = "ok" THEN Resolved(call) ELSE Rejected(call, res)
            /\ pc' = "idle"
            /\ cont' = "none" /\ res' = "ok" /\ UNCHANGED <<db, txBase, dirty, puts, idb, closedRows>>
       [] cont = "begin" ->
            /\ IF res = "ok"
                 THEN pc' = "fn" /\ call' = call
                 ELSE pc' = "idle" /\ call' = Rejected(call, res)
            /\ cont' = "none" /\ res' = "ok" /\ UNCHANGED <<db, txBase, dirty, puts, idb, closedRows>>
       [] cont = "fnrun" ->
            /\ IF res = "ok"
                 THEN /\ pc' = "fn" /\ call' = call
                      /\ cont' = "none" /\ res' = "ok" /\ UNCHANGED <<db, txBase, dirty, puts>>
                 ELSE /\ call' = [call EXCEPT !.fnOutcome = "threw", !.fnErr = res,
                                                !.err = res]
                      /\ IdbRunStmt(Rollback, "rollback")
            /\ UNCHANGED <<idb, closedRows>>
       [] cont = "commit" ->
            /\ IF res = "ok"
                 THEN /\ call' = call
                      /\ dirty' = TRUE
                      /\ PersistIfNeeded(db, "commit2")
                      /\ UNCHANGED <<db, txBase>>
                 ELSE /\ call' = [call EXCEPT !.err = res]
                      /\ IdbRunStmt(Rollback, "rollback")
            /\ UNCHANGED <<idb, closedRows>>
       [] cont = "commit2" ->
            /\ IF res = "ok"
                 THEN /\ call' = Resolved(call)
                      /\ pc' = "idle"
                      /\ cont' = "none" /\ res' = "ok" /\ UNCHANGED <<db, txBase, dirty, puts>>
                 ELSE /\ call' = [call EXCEPT !.err = res]
                      /\ IdbRunStmt(Rollback, "rollback")
            /\ UNCHANGED <<idb, closedRows>>
       [] cont = "rollback" ->
            /\ call' = IF res = "ok" THEN Rejected(call, call.err)
                                     ELSE Rejected(call, "rollback")
            /\ pc' = "idle"
            /\ cont' = "none" /\ res' = "ok" /\ UNCHANGED <<db, txBase, dirty, puts, idb, closedRows>>
       [] cont = "close" ->
            /\ IF res = "ok"
                 THEN call' = Resolved(call) /\ IdbFinishClose
                 ELSE call' = Rejected(call, res)
                      /\ UNCHANGED <<db, txBase, idb, closedRows>>
            /\ pc' = "idle"
            /\ cont' = "none" /\ res' = "ok" /\ UNCHANGED <<dirty, puts>>
  /\ UNCHANGED <<fileVars, fixed, saveTimer, autoSave, blob>>

\* the setInterval callback: if (this.dirty) await this.saveToIndexedDb()
IdbTick ==
  /\ component = "indexeddb" /\ pc # "resume"
  /\ saveTimer /\ dirty /\ SaveStarts(db)
  /\ Len(puts) < MaxPuts
  /\ puts' = Append(puts, [data |-> db, by |-> "tick"])
  /\ UNCHANGED <<fileVars, fixed, callerVars, engineVars, idb, saveTimer, dirty,
                 autoSave, blob, closedRows>>

\* req.onsuccess clears dirty; req.onerror leaves it
OnSuccessKeepsDirty(ok) == dirty
\* a put whose onerror clears dirty as well
OnErrorClearsDirty(ok) == FALSE
DirtyAfterPut(ok) == IF ok THEN FALSE ELSE dirty

\* the oldest put completes: req.onsuccess / req.onerror
IdbPutDone(ok) ==
  /\ component = "indexeddb" /\ pc # "resume"
  /\ puts # <<>>
  /\ puts' = Tail(puts)
  /\ blob' = IF ok THEN Head(puts).data ELSE blob
  /\ dirty' = DirtyAfterPut(ok)
  /\ IF Head(puts).by = "call"
       THEN pc' = "resume" /\ res' = IF ok THEN "ok" ELSE "persist"
       ELSE UNCHANGED <<pc, res>>
  /\ UNCHANGED <<fileVars, fixed, cont, call, engineVars, idb, saveTimer, autoSave,
                 closedRows>>

NextIdb ==
  \/ IdbOpen
  \/ \E k \in Keys : IdbRun(k)
  \/ \E k \in Keys : IdbExec(k)
  \/ IdbAll
  \/ IdbTransaction
  \/ \E k \in Keys : IdbFnRun(k)
  \/ IdbFnResolve
  \/ IdbFnThrow
  \/ IdbClose
  \/ \E data \in SUBSET Keys : IdbImport(data)
  \/ IdbResume
  \/ IdbTick
  \/ \E ok \in BOOLEAN : IdbPutDone(ok)

\* ------------------------------- IndexedDbAdapter: open() with its awaits
\* open() awaits initSqlJs, openIndexedDb and loadFromIndexedDb before it assigns
\* this.db, so a second open() passes the guard while the first is in flight.
\* Here run() and close() are taken with their put as one step.
SchedInit == intervalId = FALSE /\ timers = 0 /\ scheduled = 0

LifeInit == opens = 0 /\ intervals = 0 /\ SchedInit

\* open() up to its first await
IdbOpenCalled ==
  /\ component = "indexeddb" /\ pc = "idle"
  /\ IF db # Null
       THEN call' = Resolved(NewCall("open")) /\ UNCHANGED opens
       ELSE /\ opens < MaxInFlight /\ intervals + opens < MaxIntervals
            /\ opens' = opens + 1
            /\ call' = NewCall("open")
  /\ UNCHANGED <<component, pc, cont, res, engineVars, idbVars, fileVars, pgVars,
                 baseVars, resVars, trVars, bkVars, dbVars, syncVars, intervals, schedVars>>

\* startAutoSave: this.saveTimer = setInterval(...)
startAutoSave == intervals + 1

\* an open() in flight runs from loadFromIndexedDb's result to its end
IdbOpenCompletes ==
  /\ component = "indexeddb" /\ opens > 0
  /\ opens' = opens - 1
  /\ idb' = TRUE
  /\ db' = Some(LoadedRows)
  /\ txBase' = Null
  /\ IF autoSave
       THEN saveTimer' = TRUE /\ intervals' = startAutoSave
       ELSE UNCHANGED <<saveTimer, intervals>>
  /\ call' = IF call.op = "open" /\ call.outcome = "pending" /\ opens = 1
             THEN Resolved(call) ELSE call
  /\ UNCHANGED <<component, pc, cont, res, dirty, autoSave, blob, puts, closedRows,
                 fileVars, pgVars, baseVars, resVars, trVars, bkVars, dbVars, syncVars,
                 schedVars>>

\* run(INSERT k), with the put of persistIfNeeded (if any) settled
IdbRunSettled(k, ok) ==
  /\ component = "indexeddb" /\ pc = "idle"
  /\ IF db = Null
       THEN /\ call' = Rejected(NewCall("run"), "NotOpen")
            /\ UNCHANGED <<db, dirty, blob>>
       ELSE /\ db' = Some(db[1] \cup {k})
            /\ IF PersistStarts(db')
                 THEN /\ blob' = IF ok THEN db' ELSE blob
                      /\ dirty' = ~ok
                      /\ call' = IF ok THEN Resolved(NewCall("run"))
                                 ELSE Rejected(NewCall("run"), "persist")
                 ELSE /\ dirty' = TRUE
                      /\ call' = Resolved(NewCall("run"))
                      /\ UNCHANGED blob
  /\ UNCHANGED <<component, pc, cont, res, txBase, idb, saveTimer, autoSave, puts,
                 closedRows, fileVars, pgVars, baseVars, resVars, trVars, bkVars, dbVars,
                 syncVars, lifeVars, schedVars>>

\* close(), with the put of its final save (if any) settled
IdbCloseSettled(ok) ==
  /\ component = "indexeddb" /\ pc = "idle"
  /\ saveTimer' = FALSE
  /\ intervals' = IF saveTimer THEN intervals - 1 ELSE intervals
  /\ IF dirty /\ SaveStarts(db) /\ ~ok
       THEN /\ call' = Rejected(NewCall("close"), "persist")
            /\ UNCHANGED <<db, idb, dirty, blob, closedRows>>
       ELSE /\ call' = Resolved(NewCall("close"))
            /\ blob' = IF dirty /\ SaveStarts(db) THEN db ELSE blob
            /\ dirty' = IF dirty /\ SaveStarts(db) THEN FALSE ELSE dirty
            /\ db' = Null /\ idb' = FALSE
            /\ closedRows' = IF db # Null THEN db ELSE closedRows
  /\ UNCHANGED <<component, pc, cont, res, txBase, autoSave, puts, fileVars, pgVars,
                 baseVars, resVars, trVars, bkVars, dbVars, syncVars, opens, schedVars>>

NextIdbOpen ==
  \/ IdbOpenCalled
  \/ IdbOpenCompletes
  \/ \E k \in Keys, ok \in BOOLEAN : IdbRunSettled(k, ok)
  \/ \E ok \in BOOLEAN : IdbCloseSettled(ok)

\* ------------------------------------------------------------- SqlJsAdapter
\* a persistIfNeeded that writes nothing
SqlJsNeverPersisted(dbNew) == file

\* persistIfNeeded: writeFileSync(filePath, db.export()) when a path is set
SqlJsPersisted(dbNew) == IF filePath THEN dbNew ELSE file

SqlJsOpen(fp) ==
  /\ component = "sqljs" /\ pc = "idle"
  /\ IF db # Null
       THEN UNCHANGED <<db, filePath>>
       ELSE /\ filePath' = fp
            /\ db' = IF fp /\ file # Null THEN file ELSE Some({})
  /\ call' = Resolved(NewCall("open"))
  /\ UNCHANGED <<fixed, pc, cont, res, txBase, file, promiseGuard, idbVars>>

SqlJsRun(k) ==
  /\ component = "sqljs" /\ pc = "idle"
  /\ IF db = Null
       THEN /\ call' = Rejected(NewCall("run"), "NotOpen")
            /\ UNCHANGED <<db, file>>
       ELSE /\ call' = Resolved(NewCall("run"))
            /\ db' = EngineDb(Insert(k))
            /\ file' = SqlJsPersisted(EngineDb(Insert(k)))
  /\ UNCHANGED <<fixed, pc, cont, res, txBase, filePath, promiseGuard, idbVars>>

SqlJsExec(k) ==
  /\ component = "sqljs" /\ pc = "idle"
  /\ IF db = Null
       THEN /\ call' = Rejected(NewCall("exec"), "NotOpen")
            /\ UNCHANGED <<db, file>>
       ELSE /\ call' = Resolved(NewCall("exec"))
            /\ db' = Some(db[1] \cup {k})
            /\ file' = SqlJsPersisted(Some(db[1] \cup {k}))
  /\ UNCHANGED <<fixed, pc, cont, res, txBase, filePath, promiseGuard, idbVars>>

SqlJsAll ==
  /\ component = "sqljs" /\ pc = "idle"
  /\ call' = IF db = Null THEN Rejected(NewCall("all"), "NotOpen")
                          ELSE Resolved(NewCall("all"))
  /\ UNCHANGED <<fixed, pc, cont, res, engineVars, fileVars, idbVars>>

SqlJsTransaction ==
  /\ component = "sqljs" /\ pc = "idle"
  /\ IF db = Null
       THEN /\ call' = Rejected(NewCall("transaction"), "NotOpen")
            /\ UNCHANGED <<pc, txBase>>
       ELSE IF EngineOk(Begin)
       THEN /\ call' = NewCall("transaction")
            /\ txBase' = EngineTx(Begin)
            /\ pc' = "fn"
       ELSE /\ call' = Rejected(NewCall("transaction"), "engine")
            /\ UNCHANGED <<pc, txBase>>
  /\ UNCHANGED <<fixed, cont, res, db, fileVars, idbVars>>

SqlJsFnRun(k) ==
  /\ component = "sqljs" /\ pc = "fn"
  /\ k \notin db[1]
  /\ call' = [call EXCEPT !.fnWrites = @ \cup {k}]
  /\ db' = EngineDb(Insert(k))
  /\ file' = SqlJsPersisted(EngineDb(Insert(k)))
  /\ UNCHANGED <<fixed, pc, cont, res, txBase, filePath, promiseGuard, idbVars>>

SqlJsFnResolve ==
  /\ component = "sqljs" /\ pc = "fn"
  /\ IF EngineOk(Commit)
       THEN /\ call' = Resolved([call EXCEPT !.fnOutcome = "resolved", !.commit = "done"])
            /\ txBase' = EngineTx(Commit)
            /\ file' = SqlJsPersisted(db)
       ELSE /\ call' = Rejected([call EXCEPT !.fnOutcome = "resolved",
                                              !.commit = "failed"], "rollback")
            /\ UNCHANGED <<txBase, file>>
  /\ pc' = "idle"
  /\ UNCHANGED <<fixed, cont, res, db, filePath, promiseGuard, idbVars>>

SqlJsFnThrow ==
  /\ component = "sqljs" /\ pc = "fn"
  /\ IF EngineOk(Rollback)
       THEN /\ call' = Rejected([call EXCEPT !.fnOutcome = "threw", !.fnErr = "fn"], "fn")
            /\ db' = EngineDb(Rollback)
            /\ txBase' = EngineTx(Rollback)
       ELSE /\ call' = Rejected([call EXCEPT !.fnOutcome = "threw", !.fnErr = "fn"],
                                 "rollback")
            /\ UNCHANGED <<db, txBase>>
  /\ pc' = "idle"
  /\ UNCHANGED <<fixed, cont, res, fileVars, idbVars>>

SqlJsClose ==
  /\ component = "sqljs" /\ pc = "idle"
  /\ IF db # Null
       THEN /\ file' = SqlJsPersisted(db)
            /\ db' = Null
            /\ txBase' = Null
       ELSE UNCHANGED <<db, txBase, file>>
  /\ call' = Resolved(NewCall("close"))
  /\ UNCHANGED <<fixed, pc, cont, res, filePath, promiseGuard, idbVars>>

NextSqlJs ==
  \/ \E fp \in BOOLEAN : SqlJsOpen(fp)
  \/ \E k \in Keys : SqlJsRun(k)
  \/ \E k \in Keys : SqlJsExec(k)
  \/ SqlJsAll
  \/ SqlJsTransaction
  \/ \E k \in Keys : SqlJsFnRun(k)
  \/ SqlJsFnResolve
  \/ SqlJsFnThrow
  \/ SqlJsClose

\* --------------------------------------------------- CapacitorSqliteAdapter
\* db stands for this.connection; file is the native database it opens
CapOpen ==
  /\ component = "capacitor" /\ pc = "idle"
  /\ IF db # Null
       THEN UNCHANGED db
       ELSE db' = IF file # Null THEN file ELSE Some({})
  /\ call' = Resolved(NewCall("open"))
  /\ UNCHANGED <<fixed, pc, cont, res, txBase, fileVars, idbVars>>

CapRun(k) ==
  /\ component = "capacitor" /\ pc = "idle"
  /\ IF db = Null
       THEN call' = Rejected(NewCall("run"), "NotOpen") /\ UNCHANGED db
       ELSE call' = Resolved(NewCall("run")) /\ db' = EngineDb(Insert(k))
  /\ UNCHANGED <<fixed, pc, cont, res, txBase, fileVars, idbVars>>

CapExec(k) ==
  /\ component = "capacitor" /\ pc = "idle"
  /\ IF db = Null
       THEN call' = Rejected(NewCall("exec"), "NotOpen") /\ UNCHANGED db
       ELSE call' = Resolved(NewCall("exec")) /\ db' = Some(db[1] \cup {k})
  /\ UNCHANGED <<fixed, pc, cont, res, txBase, fileVars, idbVars>>

CapAll ==
  /\ component = "capacitor" /\ pc = "idle"
  /\ call' = IF db = Null THEN Rejected(NewCall("all"), "NotOpen")
                          ELSE Resolved(NewCall("all"))
  /\ UNCHANGED <<fixed, pc, cont, res, engineVars, fileVars, idbVars>>

CapTransaction ==
  /\ component = "capacitor" /\ pc = "idle"
  /\ IF db = Null
       THEN /\ call' = Rejected(NewCall("transaction"), "NotOpen")
            /\ UNCHANGED <<pc, txBase>>
       ELSE IF EngineOk(Begin)
       THEN /\ call' = NewCall("transaction")
            /\ txBase' = EngineTx(Begin)
            /\ pc' = "fn"
       ELSE /\ call' = Rejected(NewCall("transaction"), "engine")
            /\ UNCHANGED <<pc, txBase>>
  /\ UNCHANGED <<fixed, cont, res, db, fileVars, idbVars>>

CapFnRun(k) ==
  /\ component = "capacitor" /\ pc = "fn"
  /\ k \notin db[1]
  /\ call' = [call EXCEPT !.fnWrites = @ \cup {k}]
  /\ db' = EngineDb(Insert(k))
  /\ UNCHANGED <<fixed, pc, cont, res, txBase, fileVars, idbVars>>

CapFnResolve ==
  /\ component = "capacitor" /\ pc = "fn"
  /\ IF EngineOk(Commit)
       THEN /\ call' = Resolved([call EXCEPT !.fnOutcome = "resolved", !.commit = "done"])
            /\ txBase' = EngineTx(Commit)
       ELSE /\ call' = Rejected([call EXCEPT !.fnOutcome = "resolved",
                                              !.commit = "failed"], "rollback")
            /\ UNCHANGED txBase
  /\ pc' = "idle"
  /\ UNCHANGED <<fixed, cont, res, db, fileVars, idbVars>>

CapFnThrow ==
  /\ component = "capacitor" /\ pc = "fn"
  /\ IF EngineOk(Rollback)
       THEN /\ call' = Rejected([call EXCEPT !.fnOutcome = "threw", !.fnErr = "fn"], "fn")
            /\ db' = EngineDb(Rollback)
            /\ txBase' = EngineTx(Rollback)
       ELSE /\ call' = Rejected([call EXCEPT !.fnOutcome = "threw", !.fnErr = "fn"],
                                 "rollback")
            /\ UNCHANGED <<db, txBase>>
  /\ pc' = "idle"
  /\ UNCHANGED <<fixed, cont, res, fileVars, idbVars>>

CapClose ==
  /\ component = "capacitor" /\ pc = "idle"
  /\ IF db # Null
       THEN /\ file' = IF txBase # Null THEN txBase ELSE db
            /\ db' = Null
            /\ txBase' = Null
       ELSE UNCHANGED <<db, txBase, file>>
  /\ call' = Resolved(NewCall("close"))
  /\ UNCHANGED <<fixed, pc, cont, res, filePath, promiseGuard, idbVars>>

NextCap ==
  \/ CapOpen
  \/ \E k \in Keys : CapRun(k)
  \/ \E k \in Keys : CapExec(k)
  \/ CapAll
  \/ CapTransaction
  \/ \E k \in Keys : CapFnRun(k)
  \/ CapFnResolve
  \/ CapFnThrow
  \/ CapClose

\* ------------------------------------------------------ BetterSqliteAdapter
\* db.transaction(async () => fn(this)) runs the wrapped function synchronously
\* between BEGIN and COMMIT.  An async function returns a promise at its first
\* await (or at its end, or when it throws): the wrapper sees a normal return.
\* promiseGuard: this better-sqlite3 build raises a TypeError when the wrapped
\* function returns a promise, and rolls back.
BsqWrapperReturns(c) ==
  IF promiseGuard
    THEN /\ db' = EngineDb(Rollback)
         /\ txBase' = EngineTx(Rollback)
         /\ call' = Rejected(c, "TypeError")
    ELSE /\ db' = db
         /\ txBase' = EngineTx(Commit)
         /\ call' = c

BsqOpen ==
  /\ component = "better-sqlite3" /\ pc = "idle"
  /\ IF db # Null
       THEN UNCHANGED db
       ELSE db' = IF file # Null THEN file ELSE Some({})
  /\ call' = Resolved(NewCall("open"))
  /\ UNCHANGED <<fixed, pc, cont, res, txBase, fileVars, idbVars>>

BsqRun(k) ==
  /\ component = "better-sqlite3" /\ pc = "idle"
  /\ IF db = Null
       THEN call' = Rejected(NewCall("run"), "NotOpen") /\ UNCHANGED db
       ELSE call' = Resolved(NewCall("run")) /\ db' = EngineDb(Insert(k))
  /\ UNCHANGED <<fixed, pc, cont, res, txBase, fileVars, idbVars>>

BsqExec(k) ==
  /\ component = "better-sqlite3" /\ pc = "idle"
  /\ IF db = Null
       THEN call' = Rejected(NewCall("exec"), "NotOpen") /\ UNCHANGED db
       ELSE call' = Resolved(NewCall("exec")) /\ db' = Some(db[1] \cup {k})
  /\ UNCHANGED <<fixed, pc, cont, res, txBase, fileVars, idbVars>>

\* transaction(fn): ensureOpen, then wrap() issues BEGIN and calls fn
BsqTransaction ==
  /\ component = "better-sqlite3" /\ pc = "idle"
  /\ IF db = Null
       THEN /\ call' = Rejected(NewCall("transaction"), "NotOpen")
            /\ UNCHANGED <<pc, txBase>>
       ELSE /\ call' = NewCall("transaction")
            /\ txBase' = EngineTx(Begin)
            /\ pc' = "fn_sync"
  /\ UNCHANGED <<fixed, cont, res, db, fileVars, idbVars>>

\* fn calls trx.run(INSERT k): the statement executes at the call
BsqFnRun(k) ==
  /\ component = "better-sqlite3" /\ pc \in {"fn_sync", "fn_async"}
  /\ k \notin db[1]
  /\ call' = [call EXCEPT !.fnWrites = @ \cup {k}]
  /\ db' = EngineDb(Insert(k))
  /\ UNCHANGED <<fixed, pc, cont, res, txBase, fileVars, idbVars>>

\* fn reaches its first await: the async wrapper returns its promise
BsqFnAwait ==
  /\ component = "better-sqlite3" /\ pc = "fn_sync"
  /\ BsqWrapperReturns(call)
  /\ pc' = "fn_async"
  /\ UNCHANGED <<fixed, cont, res, fileVars, idbVars>>

\* fn runs to its end
BsqFnResolve ==
  /\ component = "better-sqlite3" /\ pc \in {"fn_sync", "fn_async"}
  /\ IF pc = "fn_sync"
       THEN BsqWrapperReturns(
              IF promiseGuard THEN [call EXCEPT !.fnOutcome = "resolved"]
              ELSE Resolved([call EXCEPT !.fnOutcome = "resolved", !.commit = "done"]))
       ELSE /\ call' = IF call.outcome = "pending"
                         THEN Resolved([call EXCEPT !.fnOutcome = "resolved"])
                         ELSE [call EXCEPT !.fnOutcome = "resolved"]
            /\ UNCHANGED <<db, txBase>>
  /\ pc' = "idle"
  /\ UNCHANGED <<fixed, cont, res, fileVars, idbVars>>

\* fn throws: inside an async function this rejects its promise
BsqFnThrow ==
  /\ component = "better-sqlite3" /\ pc \in {"fn_sync", "fn_async"}
  /\ IF pc = "fn_sync"
       THEN BsqWrapperReturns(
              IF promiseGuard THEN [call EXCEPT !.fnOutcome = "threw", !.fnErr = "fn"]
              ELSE Rejected([call EXCEPT !.fnOutcome = "threw", !.fnErr = "fn"], "fn"))
       ELSE /\ call' = IF call.outcome = "pending"
                         THEN Rejected([call EXCEPT !.fnOutcome = "threw", !.fnErr = "fn"], "fn")
                         ELSE [call EXCEPT !.fnOutcome = "threw", !.fnErr = "fn"]
            /\ UNCHANGED <<db, txBase>>
  /\ pc' = "idle"
  /\ UNCHANGED <<fixed, cont, res, fileVars, idbVars>>

\* a batch operation is INSERT k, or (0) a statement that throws when prepared or run
OpThrows(op) == op = 0

\* the BatchResult: per-operation counts, or the catastrophic report
BatchReturnCountsErrors(ops, ok) ==
  [successful |-> 0, failed |-> Cardinality({i \in 1..Len(ops) : OpThrows(ops[i])}),
   results |-> <<>>, errors |-> <<[index |-> -1]>>]
BatchReturn(ops, ok) ==
  LET idx == [i \in 1..Len(ops) |-> i]
      good == SelectSeq(idx, LAMBDA i : ~OpThrows(ops[i]))
      bad == SelectSeq(idx, LAMBDA i : OpThrows(ops[i]))
  IN  IF ok
        THEN [successful |-> Len(good), failed |-> Len(bad),
              results |-> [n \in 1..Len(good) |-> [lastInsertRowid |-> ops[good[n]]]],
              errors |-> [n \in 1..Len(bad) |-> [index |-> bad[n] - 1]]]
        ELSE [successful |-> 0, failed |-> Len(ops),
              results |-> <<>>, errors |-> <<[index |-> -1]>>]

\* the engine after transaction(): every operation that did not throw applied and
\* committed, or all rolled back when the transaction failed
BatchDbStopsAtFailure(ops, ok) ==
  IF ok THEN Some(db[1] \cup {ops[i] : i \in {j \in 1..Len(ops) :
                                   \A h \in 1..j : ~OpThrows(ops[h])}})
        ELSE db
BatchDb(ops, ok) ==
  IF ok THEN Some(db[1] \cup {ops[i] : i \in {j \in 1..Len(ops) : ~OpThrows(ops[j])}})
        ELSE db

\* batch(operations); ok: BEGIN and COMMIT of the enclosing transaction succeed
BsqBatch(ops, ok) ==
  /\ component = "better-sqlite3" /\ pc = "idle"
  /\ IF db = Null
       THEN call' = Rejected(NewCall("batch"), "NotOpen") /\ UNCHANGED db
       ELSE /\ call' = Resolved([NewCall("batch") EXCEPT !.data = Some(ops),
                                   !.returned = Some(BatchReturn(ops, ok))])
            /\ db' = BatchDb(ops, ok)
  /\ UNCHANGED <<fixed, pc, cont, res, txBase, fileVars, idbVars>>

BsqClose ==
  /\ component = "better-sqlite3" /\ pc = "idle"
  /\ IF db # Null
       THEN /\ file' = db
            /\ db' = Null
       ELSE UNCHANGED <<db, file>>
  /\ call' = Resolved(NewCall("close"))
  /\ UNCHANGED <<fixed, pc, cont, res, txBase, filePath, promiseGuard, idbVars>>

NextBsq ==
  \/ BsqOpen
  \/ \E k \in Keys : BsqRun(k)
  \/ \E k \in Keys : BsqExec(k)
  \/ BsqTransaction
  \/ \E k \in Keys : BsqFnRun(k)
  \/ BsqFnAwait
  \/ BsqFnResolve
  \/ BsqFnThrow
  \/ \E ops \in SeqsUpTo(Keys \cup {0}, MaxOps), ok \in BOOLEAN : BsqBatch(ops, ok)
  \/ BsqClose

\* ---------------------------------------------------------- PostgresAdapter
Tasks == {"A", "B"}
Clients == {"c1", "c2"}
NoClient == "none"
ThePool == "pool"

IdleTask == [pc |-> "idle", client |-> NoClient, op |-> "none", outcome |-> "none",
             err |-> "none", fnWrites |-> {}, fnOutcome |-> "none",
             fnErr |-> "none", commit |-> "none", execs |-> {}, releases |-> 0]

PgInit ==
  /\ pool = FALSE /\ transactionalClient = NoClient /\ free = Clients
  /\ pgRows = {} /\ pgTx = [c \in Clients |-> Null]
  /\ task = [t \in Tasks |-> IdleTask]
  /\ overlapped = FALSE

AllIdle == \A t \in Tasks : task[t].pc = "idle"

\* another call is outstanding while t starts one
Overlaps(t) == overlapped \/ \E u \in Tasks \ {t} : task[u].pc # "idle"

\* getExecutor: the transactional client if the slot is set, else the pool
GetExecutor ==
  IF transactionalClient # NoClient THEN transactionalClient
  ELSE IF ~pool THEN "NotOpen"
  ELSE ThePool

\* keys some statement has already inserted: on the server, committed or not, or
\* in a call still on record
PgUsed ==
  pgRows \cup UNION {pgTx[c][1] : c \in {x \in Clients : pgTx[x] # Null}}
         \cup UNION {task[t].fnWrites : t \in Tasks}

\* server-side effect of INSERT k sent through executor e
PgRowsAfter(e, k) ==
  IF e \in Clients /\ pgTx[e] # Null THEN pgRows ELSE pgRows \cup {k}

PgTxAfter(e, k) ==
  IF e \in Clients /\ pgTx[e] # Null
    THEN [pgTx EXCEPT ![e] = Some(@[1] \cup {k})]
    ELSE pgTx

\* a finally block that releases the client but leaves the slot set
PgFinallyKeepsSlot(t, rec) ==
  /\ transactionalClient' = transactionalClient
  /\ free' = free \cup {task[t].client}
  /\ task' = [task EXCEPT ![t] = [rec EXCEPT !.pc = "idle", !.releases = @ + 1]]

\* finally { this.transactionalClient = null; client.release() }
PgFinally(t, rec) ==
  /\ transactionalClient' = NoClient
  /\ free' = free \cup {task[t].client}
  /\ task' = [task EXCEPT ![t] = [rec EXCEPT !.pc = "idle", !.releases = @ + 1]]

PgOpen(ok) ==
  /\ component = "postgres" /\ AllIdle
  /\ IF pool
       THEN call' = Resolved(NewCall("open")) /\ UNCHANGED pool
       ELSE /\ pool' = TRUE
            /\ call' = IF ok THEN Resolved(NewCall("open"))
                             ELSE Rejected(NewCall("open"), "connect")
  /\ UNCHANGED <<notPg,
                 transactionalClient, free, pgRows, pgTx, task, overlapped>>

PgClose ==
  /\ component = "postgres" /\ AllIdle
  /\ pool' = FALSE
  /\ call' = Resolved(NewCall("close"))
  /\ UNCHANGED <<notPg,
                 transactionalClient, free, pgRows, pgTx, task, overlapped>>

\* run / exec issued outside any transaction callback by task t
PgStatement(t, o, k) ==
  /\ component = "postgres" /\ task[t].pc = "idle"
  /\ k \notin PgUsed
  /\ overlapped' = Overlaps(t)
  /\ IF GetExecutor = "NotOpen"
       THEN /\ task' = [task EXCEPT ![t] =
                          [IdleTask EXCEPT !.op = o, !.outcome = "rejected",
                                           !.err = "NotOpen"]]
            /\ UNCHANGED <<pgRows, pgTx>>
       ELSE /\ task' = [task EXCEPT ![t] =
                          [IdleTask EXCEPT !.op = o, !.outcome = "resolved",
                                           !.execs = {GetExecutor}]]
            /\ pgRows' = PgRowsAfter(GetExecutor, k)
            /\ pgTx' = PgTxAfter(GetExecutor, k)
  /\ UNCHANGED <<notPg, call,
                 pool, transactionalClient, free>>

PgRun(t, k) == PgStatement(t, "run", k)

PgExec(t, k) == PgStatement(t, "exec", k)

\* get / all issued outside any transaction callback by task t
PgAll(t) ==
  /\ component = "postgres" /\ task[t].pc = "idle"
  /\ overlapped' = Overlaps(t)
  /\ task' = [task EXCEPT ![t] =
       IF GetExecutor = "NotOpen"
         THEN [IdleTask EXCEPT !.op = "all", !.outcome = "rejected",
                               !.err = "NotOpen"]
         ELSE [IdleTask EXCEPT !.op = "all", !.outcome = "resolved",
                               !.execs = {GetExecutor}]]
  /\ UNCHANGED <<notPg, call,
                 pool, transactionalClient, free, pgRows, pgTx>>

\* transaction(fn): the pool check and await this.pool.connect()
PgTransaction(t) ==
  /\ component = "postgres" /\ task[t].pc = "idle"
  /\ overlapped' = Overlaps(t)
  /\ IF ~pool
       THEN /\ task' = [task EXCEPT ![t] =
                          [IdleTask EXCEPT !.op = "transaction",
                                           !.outcome = "rejected", !.err = "NotOpen"]]
            /\ UNCHANGED free
       ELSE \E c \in free :
              /\ free' = free \ {c}
              /\ task' = [task EXCEPT ![t] =
                            [IdleTask EXCEPT !.op = "transaction", !.pc = "begin",
                                             !.outcome = "pending", !.client = c]]
  /\ UNCHANGED <<notPg, call,
                 pool, transactionalClient, pgRows, pgTx>>

\* await client.query('BEGIN'); this.transactionalClient = client
PgBegin(t, ok) ==
  /\ component = "postgres" /\ task[t].pc = "begin"
  /\ IF ok
       THEN /\ pgTx' = [pgTx EXCEPT ![task[t].client] = Some({})]
            /\ transactionalClient' = task[t].client
            /\ task' = [task EXCEPT ![t].pc = "fn"]
       ELSE /\ task' = [task EXCEPT ![t].pc = "rollback", ![t].err = "engine"]
            /\ UNCHANGED <<pgTx, transactionalClient>>
  /\ UNCHANGED <<notPg, call,
                 pool, free, pgRows, overlapped>>

\* fn(this) issues trx.run(INSERT k) and awaits it
PgFnRun(t, k) ==
  /\ component = "postgres" /\ task[t].pc = "fn"
  /\ k \notin PgUsed
  /\ GetExecutor # "NotOpen"
  /\ pgRows' = PgRowsAfter(GetExecutor, k)
  /\ pgTx' = PgTxAfter(GetExecutor, k)
  /\ task' = [task EXCEPT ![t].fnWrites = @ \cup {k},
                          ![t].execs = @ \cup {GetExecutor}]
  /\ UNCHANGED <<notPg, call,
                 pool, transactionalClient, free, overlapped>>

\* fn resolves: await client.query('COMMIT'); return result; finally
PgFnResolve(t, ok) ==
  /\ component = "postgres" /\ task[t].pc = "fn"
  /\ pgTx' = [pgTx EXCEPT ![task[t].client] = Null]
  /\ IF ok
       THEN /\ pgRows' = IF pgTx[task[t].client] # Null
                           THEN pgRows \cup pgTx[task[t].client][1]
                           ELSE pgRows
            /\ PgFinally(t, [task[t] EXCEPT !.fnOutcome = "resolved",
                                            !.commit = "done",
                                            !.outcome = "resolved"])
       ELSE /\ task' = [task EXCEPT ![t].pc = "rollback",
                                    ![t].fnOutcome = "resolved",
                                    ![t].commit = "failed",
                                    ![t].err = "engine"]
            /\ UNCHANGED <<pgRows, transactionalClient, free>>
  /\ UNCHANGED <<notPg, call,
                 pool, overlapped>>

\* fn throws: control enters the catch block
PgFnThrow(t) ==
  /\ component = "postgres" /\ task[t].pc = "fn"
  /\ task' = [task EXCEPT ![t].pc = "rollback", ![t].fnOutcome = "threw",
                          ![t].fnErr = "fn", ![t].err = "fn"]
  /\ UNCHANGED <<notPg, call,
                 pool, transactionalClient, free, pgRows, pgTx, overlapped>>

\* a catch block that rolls back but swallows the error
PgCatchSwallows(rec, ok) == [rec EXCEPT !.outcome = "resolved"]

\* catch (error) { await client.query('ROLLBACK'); throw error; }
PgCatch(rec, ok) ==
  [rec EXCEPT !.outcome = "rejected", !.err = IF ok THEN @ ELSE "rollback"]

\* the catch block, then finally
PgRollback(t, ok) ==
  /\ component = "postgres" /\ task[t].pc = "rollback"
  /\ pgTx' = [pgTx EXCEPT ![task[t].client] = Null]
  /\ PgFinally(t, PgCatch(task[t], ok))
  /\ UNCHANGED <<notPg, call,
                 pool, pgRows, overlapped>>

NextPg ==
  \/ \E ok \in BOOLEAN : PgOpen(ok)
  \/ PgClose
  \/ \E t \in Tasks, k \in Keys : PgRun(t, k)
  \/ \E t \in Tasks, k \in Keys : PgExec(t, k)
  \/ \E t \in Tasks : PgAll(t)
  \/ \E t \in Tasks : PgTransaction(t)
  \/ \E t \in Tasks, ok \in BOOLEAN : PgBegin(t, ok)
  \/ \E t \in Tasks, k \in Keys : PgFnRun(t, k)
  \/ \E t \in Tasks, ok \in BOOLEAN : PgFnResolve(t, ok)
  \/ \E t \in Tasks : PgFnThrow(t)
  \/ \E t \in Tasks, ok \in BOOLEAN : PgRollback(t, ok)

\* ------------------------------------------------------- BaseStorageAdapter
BaseInit == state = "closed" /\ opening = 0 /\ closing = 0 /\ performed = {}

\* an open() without the check for OPENING
OpenNeverRefused == FALSE

\* open(): if (this.state === AdapterState.OPENING) throw
OpenRefused == state = "opening"

\* an assertOpen() that only looks for CLOSED
AssertOpenThrowsWhenClosed == state = "closed"

\* assertOpen(): throws unless the state is OPEN
AssertOpenThrows == state # "open"

BaseOpen ==
  /\ component = "base"
  /\ IF state = "open"
       THEN call' = Resolved(NewCall("open")) /\ UNCHANGED <<state, opening>>
       ELSE IF OpenRefused
         THEN /\ call' = Rejected(NewCall("open"), "AlreadyOpening")
              /\ UNCHANGED <<state, opening>>
         ELSE /\ opening < MaxInFlight
              /\ state' = "opening"
              /\ opening' = opening + 1
              /\ call' = NewCall("open")
  /\ UNCHANGED <<notBase, closing, performed>>

\* await this.performOpen(options) settles
BasePerformOpenDone(ok) ==
  /\ component = "base" /\ opening > 0
  /\ opening' = opening - 1
  /\ state' = IF ok THEN "open" ELSE "error"
  /\ UNCHANGED <<notBase, call, closing, performed>>

\* a close() without the check for CLOSED
CloseNeverSkipped == FALSE

\* close(): if (this.state === AdapterState.CLOSED) return
CloseSkipped == state = "closed"

BaseClose ==
  /\ component = "base"
  /\ IF CloseSkipped
       THEN call' = Resolved(NewCall("close")) /\ UNCHANGED <<state, closing>>
       ELSE IF state = "closing"
         THEN /\ call' = Rejected(NewCall("close"), "AlreadyClosing")
              /\ UNCHANGED <<state, closing>>
         ELSE /\ closing < MaxInFlight
              /\ state' = "closing"
              /\ closing' = closing + 1
              /\ call' = NewCall("close")
  /\ UNCHANGED <<notBase, opening, performed>>

\* await this.performClose() settles
BasePerformCloseDone(ok) ==
  /\ component = "base" /\ closing > 0
  /\ closing' = closing - 1
  /\ state' = IF ok THEN "closed" ELSE "error"
  /\ UNCHANGED <<notBase, call, opening, performed>>

\* run / get / all / exec / transaction: assertOpen(), then the subclass's perform*
BaseOp(o, k) ==
  /\ component = "base"
  /\ IF AssertOpenThrows
       THEN call' = Rejected(NewCall(o), "NotOpen") /\ UNCHANGED performed
       ELSE call' = Resolved(NewCall(o)) /\ performed' = performed \cup {k}
  /\ UNCHANGED <<notBase, state, opening, closing>>

NextBase ==
  \/ BaseOpen
  \/ \E ok \in BOOLEAN : BasePerformOpenDone(ok)
  \/ BaseClose
  \/ \E ok \in BOOLEAN : BasePerformCloseDone(ok)
  \/ \E o \in {"run", "get", "all", "exec", "transaction"}, k \in Keys : BaseOp(o, k)

\* ---------------------------------------------------- resolveStorageAdapter
\* adapter kinds a caller can name; "other" stands for any unrecognised name
KindNames == {"postgres", "better-sqlite3", "capacitor", "sqljs", "other"}

\* options.priority (<<>>: not given), STORAGE_ADAPTER, isCapacitorRuntime(), a
\* Postgres connection string; compiled: the resolver is the one of src/resolver.js
ROptions ==
  [priority : SeqsUpTo(KindNames, MaxPriority),
   env : KindNames \cup {"unset"},
   capacitor : BOOLEAN,
   postgresConnection : BOOLEAN,
   compiled : BOOLEAN]

NoOptions == [priority |-> <<>>, env |-> "unset", capacitor |-> FALSE,
              postgresConnection |-> FALSE, compiled |-> FALSE]

ResInit ==
  /\ rpc = "factory" /\ ridx = 1 /\ attempts = <<>> /\ errors = <<>> /\ result = Null

\* a defaultPriority that never looks at the Postgres connection string
defaultPriorityWithoutPostgres ==
  IF Len(ropts.priority) > 0 THEN ropts.priority
  ELSE IF ropts.env # "unset" THEN <<ropts.env>>
  ELSE IF ropts.capacitor THEN <<"capacitor", "sqljs">>
  ELSE <<"better-sqlite3", "sqljs">>

defaultPriority ==
  IF Len(ropts.priority) > 0 THEN ropts.priority
  ELSE IF ropts.env # "unset" THEN <<ropts.env>>
  ELSE IF ropts.capacitor THEN <<"capacitor", "sqljs">>
  ELSE IF ropts.postgresConnection THEN <<"postgres", "better-sqlite3", "sqljs">>
  ELSE <<"better-sqlite3", "sqljs">>

\* src/resolver.js: the override comes first, then options.priority
priority ==
  IF ropts.env # "unset" THEN <<ropts.env>>
  ELSE IF Len(ropts.priority) > 0 THEN ropts.priority
  ELSE IF ropts.capacitor THEN <<"capacitor", "sqljs">>
  ELSE <<"better-sqlite3", "sqljs">>

\* the switch of the candidates map: unrecognised names fall to the sqljs case
\* (src/resolver.js has no postgres case)
candidates ==
  LET names == IF ropts.compiled THEN priority ELSE defaultPriority
      cases == IF ropts.compiled THEN {"better-sqlite3", "capacitor"}
               ELSE {"postgres", "better-sqlite3", "capacitor"}
  IN  [i \in 1..Len(names) |-> IF names[i] \in cases THEN names[i] ELSE "sqljs"]

\* a catch block that keeps only the latest error
KeepLastError(errs, e) == <<e>>

\* catch (error) { errors.push(error); continue; }
PushError(errs, e) == Append(errs, e)

\* a loop that goes on to the next candidate even after a successful open()
AfterOpenContinues(ok) == "factory"

\* after await adapter.open(): return adapter, or the catch block
AfterOpen(ok) == IF ok THEN "returned" ELSE "factory"

\* const adapter = await candidate.factory()
ResolveFactory(ok) ==
  /\ component = "resolver" /\ rpc = "factory" /\ ridx <= Len(candidates)
  /\ (candidates[ridx] = "postgres" /\ ~ropts.postgresConnection) => ~ok
  /\ IF ok
       THEN /\ attempts' = Append(attempts, [name |-> candidates[ridx], end |-> "pending"])
            /\ rpc' = "open"
            /\ UNCHANGED <<ridx, errors>>
       ELSE /\ attempts' = Append(attempts, [name |-> candidates[ridx], end |-> "factory"])
            /\ errors' = PushError(errors, [of |-> ridx, stage |-> "factory"])
            /\ ridx' = ridx + 1
            /\ UNCHANGED rpc
  /\ UNCHANGED <<notRes, ropts, result>>

\* await adapter.open(openOptions); return adapter
ResolveOpen(ok) ==
  /\ component = "resolver" /\ rpc = "open"
  /\ rpc' = AfterOpen(ok)
  /\ attempts' = [attempts EXCEPT ![Len(attempts)].end = IF ok THEN "ok" ELSE "open"]
  /\ IF ok
       THEN /\ IF rpc' = "returned"
                 THEN result' = Some([name |-> candidates[ridx], open |-> TRUE])
                 ELSE UNCHANGED result
            /\ ridx' = IF rpc' = "returned" THEN ridx ELSE ridx + 1
            /\ UNCHANGED errors
       ELSE /\ errors' = PushError(errors, [of |-> ridx, stage |-> "open"])
            /\ ridx' = ridx + 1
            /\ UNCHANGED result
  /\ UNCHANGED <<notRes, ropts>>

\* the loop ended: throw new StorageResolutionError(..., errors)
ResolveThrow ==
  /\ component = "resolver" /\ rpc = "factory" /\ ridx > Len(candidates)
  /\ rpc' = "threw"
  /\ UNCHANGED <<notRes, ropts, ridx, attempts, errors, result>>

NextRes ==
  \/ \E ok \in BOOLEAN : ResolveFactory(ok)
  \/ \E ok \in BOOLEAN : ResolveOpen(ok)
  \/ ResolveThrow

\* ------------------------------------------------------------ createDatabase
Types == {"postgres", "sqlite", "browser", "mobile", "memory"}

\* DatabaseOptions: type ("none": not given), url or postgres config, priority
\* (<<>>: not given); window: typeof window !== 'undefined' in this runtime
DatabaseOptions ==
  [type : Types \cup {"none"},
   url : BOOLEAN,
   priority : SeqsUpTo(KindNames, MaxPriority),
   window : BOOLEAN]

DbInit ==
  dbOptions = [type |-> "none", url |-> FALSE, priority |-> <<>>, window |-> FALSE]

typeMap(t) ==
  CASE t = "postgres" -> "postgres"
    [] t = "sqlite" -> "better-sqlite3"
    [] t = "browser" -> "sqljs"
    [] t = "mobile" -> "capacitor"
    [] t = "memory" -> "better-sqlite3"

\* resolverOptions.priority as createDatabase leaves it
createDatabasePriority(options) ==
  LET mapped == IF options.type # "none" THEN <<typeMap(options.type)>> ELSE <<>>
      byRuntime == IF options.type # "none"
                     THEN IF options.window THEN <<"sqljs">> ELSE <<"better-sqlite3">>
                     ELSE mapped
  IN  IF Len(options.priority) > 0 THEN options.priority ELSE byRuntime

\* createDatabase up to its call of resolveStorageAdapter(resolverOptions)
CreateDatabase ==
  /\ component = "resolver" /\ rpc = "create"
  /\ ropts' = [ropts EXCEPT !.priority = createDatabasePriority(dbOptions),
                            !.postgresConnection = dbOptions.url]
  /\ rpc' = "factory"
  /\ UNCHANGED <<notRes, ridx, attempts, errors, result>>

\* -------------------------------------------------------------- sync manager
\* One synchronized table.  A row is a SyncRecord: its id, its updated_at and its
\* content, for which the side that wrote it stands.  A derived id is the id
\* suffixed with the remote origin tag.
Strategies == {"last-write-wins", "local-wins", "remote-wins", "keep-both"}
Directions == {"bidirectional", "push-only", "pull-only"}

SyncRecords(origin) ==
  [id : {<<i>> : i \in 1..MaxIds}, updated_at : 1..MaxTime, origin : {origin}]

\* the tables a database can hold: id is the key
Tables(origin) ==
  {t \in SUBSET SyncRecords(origin) : \A a \in t, b \in t : a.id = b.id => a = b}

Modes == {"manual", "auto", "periodic", "realtime", "on-reconnect"}

\* the modes that enqueue the next cycle behind the one in progress
Queueing == {"auto", "realtime"}

QueueInit == mode = "manual" /\ queued = FALSE /\ running = 0

NoCycle == [before |-> {}, remoteBefore |-> {}, conflicts |-> {}, count |-> 0]

SyncInit ==
  /\ local = {} /\ remote = {} /\ lastSync = 0 /\ cycle = NoCycle
  /\ sync = [conflictStrategy |-> "last-write-wins", direction |-> "bidirectional"]
  /\ QueueInit

Ids(table) == {r.id : r \in table}
Row(table, id) == CHOOSE r \in table : r.id = id

\* conflict detection between the two rows of one id
Conflict(l, r) == l.updated_at > 0 \/ r.updated_at > 0

\* last-write-wins that keeps the local row on equal timestamps
lastWriteWinsTiesLocal(l, r) == IF r.updated_at > l.updated_at THEN r ELSE l

\* last-write-wins: the row with the greater updated_at; ties -> remote
lastWriteWins(l, r) == IF l.updated_at > r.updated_at THEN l ELSE r

\* the id suffixed with the remote origin tag, until no row has it
RECURSIVE derivedId(_, _)
derivedId(id, taken) ==
  LET d == Append(id, "remote")
  IN  IF d \in taken THEN derivedId(d, taken) ELSE d

\* keep-both that puts the remote row in the place of the local one
keepBothReplaces(table, l, r, taken) ==
  (table \ {l}) \cup {[r EXCEPT !.id = derivedId(r.id, taken)]}

\* keep-both: insert the remote row under a derived unique id; both survive
keepBoth(table, l, r, taken) ==
  table \cup {[r EXCEPT !.id = derivedId(r.id, taken)]}

\* resolve one conflict per policy: the local table afterwards
resolveConflict(table, l, r, taken) ==
  CASE sync.conflictStrategy = "last-write-wins" ->
         (table \ {l}) \cup {lastWriteWins(l, r)}
    [] sync.conflictStrategy = "local-wins" -> table
    [] sync.conflictStrategy = "remote-wins" -> (table \ {l}) \cup {r}
    [] sync.conflictStrategy = "keep-both" -> keepBoth(table, l, r, taken)

\* step 3a for the remote rows not yet handled: the local table and the
\* conflicts recorded
RECURSIVE pullRows(_, _, _)
pullRows(rows, table, conflicts) ==
  IF rows = {} THEN [table |-> table, conflicts |-> conflicts]
  ELSE LET r == CHOOSE x \in rows : TRUE
           rest == rows \ {r}
       IN  IF r.id \notin Ids(local)
             THEN pullRows(rest, table \cup {r}, conflicts)
           ELSE IF Conflict(Row(local, r.id), r)
             THEN pullRows(rest,
                           resolveConflict(table, Row(local, r.id), r,
                                           Ids(table) \cup Ids(remote)),
                           conflicts \cup {r.id})
           ELSE pullRows(rest, table, conflicts)

\* step 3b: upsert into remote, keyed by id, the local rows newer than the stamp
pushRows(table, stamp) ==
  LET newer == {l \in table : l.updated_at > stamp}
  IN  {r \in remote : r.id \notin Ids(newer)} \cup newer

\* a manager that takes itself to be IDLE whatever it is doing
neverSyncing == FALSE

\* the manager's state is SYNCING
syncing == pc # "idle"

\* cycles begun or enqueued so far
Begun == cycle.count + (IF queued THEN 1 ELSE 0)

\* the connectivity probe, then the cycle starts
beginCycle(online) ==
  IF online
    THEN /\ call' = NewCall("sync")
         /\ pc' = "pull"
         /\ cycle' = [before |-> local, remoteBefore |-> remote, conflicts |-> {},
                      count |-> cycle.count + 1]
         /\ running' = running + 1
    ELSE /\ call' = Resolved([NewCall("sync") EXCEPT !.returned = Some("offline")])
         /\ cycle' = [cycle EXCEPT !.count = @ + 1]
         /\ UNCHANGED <<pc, running>>

\* sync(), a timer tick or a mutation asks for a cycle: it starts when the
\* manager is IDLE; when it is SYNCING no cycle starts, and the auto and
\* realtime modes enqueue the next one
SyncBegin(online) ==
  /\ component = "sync" /\ Begun < MaxCycles
  /\ IF syncing
       THEN /\ queued' = (queued \/ mode \in Queueing)
            /\ UNCHANGED <<call, pc, cycle, running>>
       ELSE /\ beginCycle(online)
            /\ UNCHANGED queued
  /\ UNCHANGED <<notSync, local, remote, sync, lastSync, mode>>

\* the enqueued cycle runs once the manager is IDLE again
SyncDequeue(online) ==
  /\ component = "sync" /\ ~syncing /\ queued
  /\ queued' = FALSE
  /\ beginCycle(online)
  /\ UNCHANGED <<notSync, local, remote, sync, lastSync, mode>>

\* step 3a: the pull phase
SyncPull ==
  /\ component = "sync" /\ pc = "pull"
  /\ IF sync.direction \in {"bidirectional", "pull-only"}
       THEN LET pulled == pullRows(remote, local, {})
            IN  /\ local' = pulled.table
                /\ cycle' = [cycle EXCEPT !.conflicts = pulled.conflicts]
       ELSE UNCHANGED <<local, cycle>>
  /\ pc' = "push"
  /\ UNCHANGED <<notSync, call, remote, sync, lastSync, mode, queued, running>>

\* step 3b: the push phase, then the cycle's result
SyncPush(now) ==
  /\ component = "sync" /\ pc = "push" /\ now >= lastSync
  /\ IF sync.direction \in {"bidirectional", "push-only"}
       THEN remote' = pushRows(local, lastSync)
       ELSE UNCHANGED remote
  /\ lastSync' = now
  /\ call' = Resolved([call EXCEPT !.returned = Some("synced")])
  /\ pc' = "idle"
  /\ running' = running - 1
  /\ UNCHANGED <<notSync, local, sync, cycle, mode, queued>>

NextSync ==
  \/ \E online \in BOOLEAN : SyncBegin(online)
  \/ SyncPull
  \/ \E now \in 0..MaxTime : SyncPush(now)

\* the manager in any mode, with the cycle it enqueued
NextSyncQueue ==
  \/ \E online \in BOOLEAN : SyncBegin(online)
  \/ SyncPull
  \/ \E now \in 0..MaxTime : SyncPush(now)
  \/ \E online \in BOOLEAN : SyncDequeue(online)

\* ------------------------------------- PostgresAdapter: statement translation
\* A statement is a sequence of lexemes: plain text "x", blank " ", ";", the quote
\* "'", the positional placeholder "?" and the named placeholders "@a", "@b".
\* The translation writes the placeholder $k as Dollar(k).  The handle is open and
\* no transaction is pinned, so getExecutor() returns the pool.
Tok(c) == [t |-> c, n |-> 0]
Dollar(k) == [t |-> "$", n |-> k]

Names == {"@a", "@b"}
Tokens == {Tok(c) : c \in {"x", " ", ";", "'", "?"} \cup Names}

NoParameters == [kind |-> "null", items |-> <<>>, map |-> <<>>, value |-> "undefined"]
\* null, an array of values (null among them), an object giving values to some of
\* the names, or a single scalar
Parameters ==
  LET Values == {"u", "v"}
  IN  {NoParameters}
        \cup [kind : {"array"}, items : SeqsUpTo(Values \cup {"null"}, MaxValues),
              map : {<<>>}, value : {"undefined"}]
        \cup [kind : {"object"}, items : {<<>>},
              map : UNION {[D -> Values] : D \in SUBSET Names}, value : {"undefined"}]
        \cup [kind : {"scalar"}, items : {<<>>}, map : {<<>>}, value : Values]

TrInit == statement = <<>> /\ parameters = NoParameters /\ pending = <<>> /\ sent = <<>>

\* the variant that treats a scalar as no parameters
normaliseScalarDropped(p) ==
  CASE p.kind = "array" -> [named |-> Null, positional |-> Some(p.items)]
    [] p.kind = "object" -> [named |-> Some(p.map), positional |-> Null]
    [] OTHER -> [named |-> Null, positional |-> Null]
normaliseParameters(p) ==
  CASE p.kind = "null" -> [named |-> Null, positional |-> Null]
    [] p.kind = "array" -> [named |-> Null, positional |-> Some(p.items)]
    [] p.kind = "object" -> [named |-> Some(p.map), positional |-> Null]
    [] OTHER -> [named |-> Null, positional |-> Some(<<p.value>>)]

\* String.replace(re, callback) with a callback that counts its invocations: the
\* k-th lexeme of `st` that is in `marks` becomes Dollar(k)
Renumbered(st, marks) ==
  [i \in 1..Len(st) |->
     IF st[i].t \in marks
       THEN Dollar(Cardinality({j \in 1..i : st[j].t \in marks}))
       ELSE st[i]]

\* named[key]: undefined when the object has no such property
Property(named, key) == IF key \in DOMAIN named THEN named[key] ELSE "undefined"

\* the variant that numbers a name once and passes one value per distinct name
buildNamedReusing(st, named) ==
  LET order == SelectSeq(st, LAMBDA x : x.t \in Names)
      used == {order[h].t : h \in 1..Len(order)}
      firstAt(nm) == CHOOSE j \in 1..Len(order) :
                       order[j].t = nm /\ \A h \in 1..(j - 1) : order[h].t # nm
      number(nm) == Cardinality({order[h].t : h \in 1..firstAt(nm)})
  IN  [text |-> [i \in 1..Len(st) |->
                   IF st[i].t \in Names THEN Dollar(number(st[i].t)) ELSE st[i]],
       values |-> [n \in 1..Cardinality(used) |->
                     Property(named, CHOOSE nm \in used : number(nm) = n)]]
buildNamedStatement(st, named) ==
  LET order == SelectSeq(st, LAMBDA x : x.t \in Names)
  IN  [text |-> Renumbered(st, Names),
       values |-> [n \in 1..Len(order) |-> Property(named, order[n].t)]]

\* the variant that passes the values last first
buildPositionalReversed(st, positional) ==
  [text |-> Renumbered(st, {"?"}),
   values |-> [n \in 1..Len(positional) |-> positional[Len(positional) + 1 - n]]]
buildPositionalStatement(st, positional) ==
  [text |-> Renumbered(st, {"?"}), values |-> positional]

isPositional(st) == \E i \in 1..Len(st) : st[i].t = "?"

prepareStatement(st, p) ==
  LET n == normaliseParameters(p)
  IN  IF n.named # Null THEN buildNamedStatement(st, n.named[1])
      ELSE IF n.positional # Null THEN buildPositionalStatement(st, n.positional[1])
      ELSE IF isPositional(st) THEN buildPositionalStatement(st, <<>>)
      ELSE [text |-> st, values |-> <<>>]

\* String.split(';')
RECURSIVE Split(_)
Split(script) ==
  IF \A i \in 1..Len(script) : script[i].t # ";" THEN <<script>>
  ELSE LET at == CHOOSE i \in 1..Len(script) :
                   script[i].t = ";" /\ \A j \in 1..(i - 1) : script[j].t # ";"
       IN  <<SubSeq(script, 1, at - 1)>> \o Split(SubSeq(script, at + 1, Len(script)))

\* String.trim()
RECURSIVE Trim(_)
Trim(part) ==
  IF part = <<>> THEN part
  ELSE IF part[1].t = " " THEN Trim(Tail(part))
  ELSE IF part[Len(part)].t = " " THEN Trim(SubSeq(part, 1, Len(part) - 1))
  ELSE part

splitStatements(script) ==
  LET parts == Split(script)
      trimmed == [i \in 1..Len(parts) |-> Trim(parts[i])]
  IN  SelectSeq(trimmed, LAMBDA part : Len(part) > 0)

\* run / get / all (statement, parameters): prepare, then await executor.query
TrRun(o) ==
  /\ component = "translator" /\ pc = "idle"
  /\ call' = NewCall(o)
  /\ sent' = <<prepareStatement(statement, parameters)>>
  /\ pending' = <<>>
  /\ pc' = "wait"
  /\ UNCHANGED <<notTr, statement, parameters>>

\* exec(script): split, then await executor.query(text) for each statement
TrExec ==
  /\ component = "translator" /\ pc = "idle"
  /\ LET statements == splitStatements(statement)
     IN  IF statements = <<>>
           THEN /\ call' = Resolved(NewCall("exec"))
                /\ sent' = <<>> /\ pending' = <<>> /\ pc' = "idle"
           ELSE /\ call' = NewCall("exec")
                /\ sent' = <<[text |-> Head(statements), values |-> <<>>]>>
                /\ pending' = Tail(statements)
                /\ pc' = "wait"
  /\ UNCHANGED <<notTr, statement, parameters>>

\* the driver settles the query awaited
TrQueryDone(ok) ==
  /\ component = "translator" /\ pc = "wait"
  /\ IF ~ok
       THEN /\ call' = Rejected(call, "driver")
            /\ pc' = "idle" /\ pending' = <<>> /\ sent' = sent
       ELSE IF pending # <<>>
         THEN /\ sent' = Append(sent, [text |-> Head(pending), values |-> <<>>])
              /\ pending' = Tail(pending)
              /\ UNCHANGED <<pc, call>>
         ELSE /\ call' = Resolved(call)
              /\ pc' = "idle"
              /\ UNCHANGED <<pending, sent>>
  /\ UNCHANGED <<notTr, statement, parameters>>

NextTr ==
  \/ \E o \in {"run", "get", "all"} : TrRun(o)
  \/ TrExec
  \/ \E ok \in BOOLEAN : TrQueryDone(ok)

\* ------------------------------------------------------- CloudBackupManager
\* Backup keys are `${prefix}backup-${ISO timestamp}.${ext}`: under one prefix their
\* lexicographic order is the order of the timestamps, modelled by the order of
\* the integers.  The CloudStorageProvider is modelled by its interface: upload
\* adds the key, list returns the keys under the prefix, delete removes the key,
\* and each of them can reject.
Stamps == 1..MaxStamp

BkInit == bucket = {} /\ maxBackups = 0 /\ toDelete = <<>>

\* Array.prototype.sort() on the listed keys
RECURSIVE Sort(_)
Sort(S) ==
  IF S = {} THEN <<>>
  ELSE LET least == CHOOSE k \in S : \A j \in S : k <= j
       IN  <<least>> \o Sort(S \ {least})

\* cleanupOldBackups deleting the newest keys instead of the oldest
cleanupNewestFirst(backups) ==
  IF Cardinality(backups) <= maxBackups THEN <<>>
  ELSE SubSeq(Sort(backups), maxBackups + 1, Cardinality(backups))

\* cleanupOldBackups: the keys it goes on to delete, given what list() returned
cleanupOldBackups(backups) ==
  IF Cardinality(backups) <= maxBackups THEN <<>>
  ELSE SubSeq(Sort(backups), 1, Cardinality(backups) - maxBackups)

\* backup(): export, upload under a fresh key, then list and start the cleanup
backup(key, uploaded, listed) ==
  /\ component = "backup" /\ pc = "idle"
  /\ IF ~uploaded
       THEN /\ call' = Rejected(NewCall("backup"), "Upload")
            /\ UNCHANGED <<bucket, toDelete, pc>>
       ELSE /\ bucket' = bucket \cup {key}
            /\ IF maxBackups = 0
                 THEN /\ call' = Resolved(NewCall("backup"))
                      /\ UNCHANGED <<toDelete, pc>>
                 ELSE IF ~listed
                 THEN /\ call' = Rejected(NewCall("backup"), "List")
                      /\ UNCHANGED <<toDelete, pc>>
                 ELSE /\ toDelete' = cleanupOldBackups(bucket')
                      /\ IF toDelete' = <<>>
                           THEN /\ call' = Resolved([NewCall("backup") EXCEPT
                                                       !.data = Some(bucket')])
                                /\ UNCHANGED pc
                           ELSE /\ call' = [NewCall("backup") EXCEPT !.data = Some(bucket')]
                                /\ pc' = "deleting"
  /\ UNCHANGED <<notBk, maxBackups, intervalId, timers>>

\* backupNow(): a backup the caller asks for
BkBackup(key, uploaded, listed) ==
  backup(key, uploaded, listed) /\ UNCHANGED scheduled

\* the setInterval callback of start(): a scheduled backup begins
BkTick(key, uploaded, listed) ==
  /\ timers > 0 /\ scheduled < MaxScheduled
  /\ backup(key, uploaded, listed)
  /\ scheduled' = scheduled + 1

\* a start() that sets a second interval when one is already set
startNeverThrows == FALSE

\* start(): if (this.intervalId) throw
startThrows == intervalId

BkStart ==
  /\ component = "backup" /\ pc = "idle"
  /\ IF startThrows
       THEN /\ call' = Rejected(NewCall("start"), "AlreadyStarted")
            /\ UNCHANGED <<intervalId, timers>>
       ELSE /\ call' = Resolved(NewCall("start"))
            /\ intervalId' = TRUE
            /\ timers' = timers + 1
  /\ UNCHANGED <<notBk, pc, bkVars, scheduled>>

\* stop(): clearInterval(this.intervalId) if it is set
BkStop ==
  /\ component = "backup" /\ pc = "idle"
  /\ call' = Resolved(NewCall("stop"))
  /\ intervalId' = FALSE
  /\ timers' = IF intervalId THEN timers - 1 ELSE timers
  /\ UNCHANGED <<notBk, pc, bkVars, scheduled>>

\* one turn of cleanupOldBackups' loop: await this.storage.delete(key)
BkDelete(deleted) ==
  /\ component = "backup" /\ pc = "deleting"
  /\ IF ~deleted
       THEN /\ call' = Rejected(call, "Delete")
            /\ toDelete' = <<>> /\ pc' = "idle"
            /\ UNCHANGED bucket
       ELSE /\ bucket' = bucket \ {Head(toDelete)}
            /\ toDelete' = Tail(toDelete)
            /\ IF toDelete' = <<>>
                 THEN call' = Resolved(call) /\ pc' = "idle"
                 ELSE UNCHANGED <<call, pc>>
  /\ UNCHANGED <<notBk, maxBackups, schedVars>>

\* A key is a string, modelled as the sequence of its parts: the segments of
\* the prefix, "backup", the timestamp, the extension and the compression suffix.
\* A prefix is any non-empty path; one of its segments may be named like a format.
PrefixSegments == {"backups/", "db.json/", "db.sql/"}

BackupOptions ==
  [format : {"json", "sql"},
   compression : {"none", "gzip"},
   prefix : SeqsUpTo(PrefixSegments, MaxPrefix) \ {<<>>},
   includeTimestamp : BOOLEAN]

\* backup(): `${prefix}backup${timestamp}.${ext}${compExt}`
backupKey(o) ==
  o.prefix \o <<"backup">>
    \o (IF o.includeTimestamp THEN <<"-timestamp">> ELSE <<>>)
    \o (IF o.format = "json" THEN <<".json">> ELSE <<".sql">>)
    \o (IF o.compression = "gzip" THEN <<".gz">> ELSE <<>>)

\* key.endsWith('.gz')
endsWithGz(key) == key[Len(key)] = ".gz"

\* key.includes('.json'): the segment db.json/ contains it as well
includesJson(key) == \E i \in 1..Len(key) : key[i] \in {".json", "db.json/"}

\* restore(key), for the key backup() returned under options o: whether it
\* gunzips, and the importer it hands the data to
BkRestore(o, downloaded) ==
  /\ component = "backup" /\ pc = "idle"
  /\ IF ~downloaded
       THEN call' = Rejected([NewCall("restore") EXCEPT !.data = Some(o)], "Download")
       ELSE call' = Resolved([NewCall("restore") EXCEPT
                      !.data = Some(o),
                      !.returned = Some([gunzip |-> endsWithGz(backupKey(o)),
                                         importer |-> IF includesJson(backupKey(o))
                                                        THEN "json" ELSE "sql"])])
  /\ UNCHANGED <<notBk, pc, bkVars, schedVars>>

NextBk ==
  \/ \E key \in Stamps, uploaded \in BOOLEAN, listed \in BOOLEAN :
       BkBackup(key, uploaded, listed)
  \/ \E deleted \in BOOLEAN : BkDelete(deleted)
  \/ \E o \in BackupOptions, downloaded \in BOOLEAN : BkRestore(o, downloaded)

\* the manager with its schedule: start(), stop(), the interval's callback
NextBkSched ==
  \/ BkStart
  \/ BkStop
  \/ \E key \in Stamps, uploaded \in BOOLEAN, listed \in BOOLEAN :
       BkTick(key, uploaded, listed)
  \/ \E key \in Stamps, uploaded \in BOOLEAN, listed \in BOOLEAN :
       BkBackup(key, uploaded, listed)
  \/ \E deleted \in BOOLEAN : BkDelete(deleted)

\* ------------------------------------------------------------ specification
CallerInit == pc = "idle" /\ cont = "none" /\ res = "ok" /\ call = NoCall

EngineInit == db = Null /\ txBase = Null

FileInit == file = Null /\ filePath = FALSE

Constructed ==
  /\ CallerInit /\ EngineInit /\ IdbInit /\ FileInit /\ PgInit /\ BaseInit /\ ResInit
  /\ TrInit /\ BkInit /\ DbInit /\ SyncInit /\ LifeInit

\* the constructor options of the classes other than the one under analysis
OnlyIdbOptions == promiseGuard = FALSE /\ ropts = NoOptions
NoIdbOptions == autoSave = TRUE /\ ropts = NoOptions

InitIdb == component = "indexeddb" /\ Constructed /\ autoSave \in BOOLEAN /\ OnlyIdbOptions

SpecIdb == InitIdb /\ [][NextIdb]_vars

SpecIdbOpen == InitIdb /\ [][NextIdbOpen]_vars

\* the KV store refuses no put
NextIdbPutsSucceed ==
  \/ IdbOpen
  \/ \E k \in Keys : IdbRun(k)
  \/ \E k \in Keys : IdbExec(k)
  \/ IdbAll
  \/ IdbTransaction
  \/ \E k \in Keys : IdbFnRun(k)
  \/ IdbFnResolve
  \/ IdbFnThrow
  \/ IdbClose
  \/ \E data \in SUBSET Keys : IdbImport(data)
  \/ IdbResume
  \/ IdbTick
  \/ IdbPutDone(TRUE)

\* the interval keeps firing however the caller's calls interleave, puts complete
\* and succeed, the microtask queue is drained; the caller is free to make no
\* further call
SpecIdbFair ==
  /\ InitIdb /\ [][NextIdbPutsSucceed]_vars
  /\ SF_vars(IdbTick) /\ SF_vars(IdbPutDone(TRUE)) /\ WF_vars(IdbResume)

InitSqlJs == component = "sqljs" /\ Constructed /\ NoIdbOptions /\ promiseGuard = FALSE

SpecSqlJs == InitSqlJs /\ [][NextSqlJs]_vars

InitCap == component = "capacitor" /\ Constructed /\ NoIdbOptions /\ promiseGuard = FALSE

SpecCap == InitCap /\ [][NextCap]_vars

InitBsq == component = "better-sqlite3" /\ Constructed /\ NoIdbOptions /\ promiseGuard \in BOOLEAN

SpecBsq == InitBsq /\ [][NextBsq]_vars

InitPg == component = "postgres" /\ Constructed /\ NoIdbOptions /\ promiseGuard = FALSE

SpecPg == InitPg /\ [][NextPg]_vars

InitBase == component = "base" /\ Constructed /\ NoIdbOptions /\ promiseGuard = FALSE

SpecBase == InitBase /\ [][NextBase]_vars

InitRes ==
  /\ component = "resolver" /\ Constructed
  /\ autoSave = TRUE /\ promiseGuard = FALSE /\ ropts \in ROptions

SpecRes == InitRes /\ [][NextRes]_vars

\* a statement and its parameters, as a caller can pass them
InitTr ==
  /\ component = "translator"
  /\ CallerInit /\ EngineInit /\ IdbInit /\ FileInit /\ PgInit /\ BaseInit /\ ResInit
  /\ NoIdbOptions /\ promiseGuard = FALSE
  /\ statement \in SeqsUpTo(Tokens, MaxLen) /\ parameters \in Parameters
  /\ pending = <<>> /\ sent = <<>> /\ BkInit /\ DbInit /\ SyncInit /\ LifeInit

SpecTr == InitTr /\ [][NextTr]_vars

\* a bucket as earlier backups (or anyone else) left it, and a retention count
InitBk ==
  /\ component = "backup"
  /\ CallerInit /\ EngineInit /\ IdbInit /\ FileInit /\ PgInit /\ BaseInit /\ ResInit
  /\ TrInit /\ DbInit /\ SyncInit /\ LifeInit /\ NoIdbOptions /\ promiseGuard = FALSE
  /\ bucket \in SUBSET Stamps /\ maxBackups \in 0..MaxBackups /\ toDelete = <<>>

SpecBk == InitBk /\ [][NextBk]_vars

SpecBkSched == InitBk /\ [][NextBkSched]_vars

\* createDatabase called with any options, in any runtime
InitDb ==
  /\ component = "resolver"
  /\ CallerInit /\ EngineInit /\ IdbInit /\ FileInit /\ PgInit /\ BaseInit /\ TrInit /\ BkInit
  /\ SyncInit /\ LifeInit /\ autoSave = TRUE /\ promiseGuard = FALSE
  /\ rpc = "create" /\ ridx = 1 /\ attempts = <<>> /\ errors = <<>> /\ result = Null
  /\ dbOptions \in DatabaseOptions
  /\ \E e \in KindNames \cup {"unset"}, cap \in BOOLEAN, c \in BOOLEAN :
       ropts = [NoOptions EXCEPT !.env = e, !.capacitor = cap, !.compiled = c]

NextDb == CreateDatabase \/ NextRes

SpecDb == InitDb /\ [][NextDb]_vars

\* two databases whose tables diverged while offline, and a sync configuration
InitSync ==
  /\ component = "sync"
  /\ CallerInit /\ EngineInit /\ IdbInit /\ FileInit /\ PgInit /\ BaseInit /\ ResInit
  /\ TrInit /\ BkInit /\ DbInit /\ LifeInit /\ NoIdbOptions /\ promiseGuard = FALSE
  /\ local \in Tables("local") /\ remote \in Tables("remote")
  /\ sync \in [conflictStrategy : Strategies, direction : Directions]
  /\ lastSync \in 0..MaxTime
  /\ cycle = NoCycle /\ QueueInit

SpecSync == InitSync /\ [][NextSync]_vars

\* a manager in any sync.mode, with the default strategy and direction
InitSyncQueue ==
  /\ component = "sync"
  /\ CallerInit /\ EngineInit /\ IdbInit /\ FileInit /\ PgInit /\ BaseInit /\ ResInit
  /\ TrInit /\ BkInit /\ DbInit /\ LifeInit /\ NoIdbOptions /\ promiseGuard = FALSE
  /\ local \in Tables("local") /\ remote \in Tables("remote")
  /\ sync = [conflictStrategy |-> "last-write-wins", direction |-> "bidirectional"]
  /\ lastSync = 0 /\ cycle = NoCycle
  /\ mode \in Modes /\ queued = FALSE /\ running = 0

\* a cycle in progress goes on to its end, and the enqueued cycle is taken up
SpecSyncQueue ==
  /\ InitSyncQueue /\ [][NextSyncQueue]_vars
  /\ WF_vars(SyncPull) /\ WF_vars(\E now \in 0..MaxTime : SyncPush(now))
  /\ WF_vars(\E online \in BOOLEAN : SyncDequeue(online))

Init == InitIdb \/ InitSqlJs \/ InitCap \/ InitBsq \/ InitPg \/ InitBase \/ InitRes

Next == NextIdb \/ NextSqlJs \/ NextCap \/ NextBsq \/ NextPg \/ NextBase \/ NextRes

Spec == Init /\ [][Next]_vars

\* ------------------------------------------------------------------ claims
\* the operations that need an open handle
DataOps == {"run", "exec", "transaction", "get", "all"}

\* C1: after IndexedDbAdapter.close() has returned and no KV put is pending, the
\* blob under key "db" holds exactly the rows the engine held when it was closed,
\* so reopening loads them.
C1_CloseKeepsCommittedRows ==
  (/\ component = "indexeddb"
   /\ pc = "idle" /\ call.op = "close" /\ call.outcome = "resolved"
   /\ closedRows # Null /\ puts = <<>>)
    => LoadedRows = closedRows[1]

\* a transaction(fn) call of the single caller has returned and fn had run
TxReturned ==
  /\ component \in {"indexeddb", "sqljs", "capacitor"}
  /\ pc = "idle" /\ call.op = "transaction" /\ call.fnOutcome # "none"
  /\ db # Null

\* a transaction(fn) call of task t on an opened PostgresAdapter has returned and fn
\* had run, with no two calls ever outstanding together
PgTxReturned(t) ==
  /\ component = "postgres" /\ ~overlapped /\ call.life = "open"
  /\ task[t].pc = "idle" /\ task[t].op = "transaction" /\ task[t].fnOutcome # "none"

\* the claim as written, for a returned call r and the rows V a read now sees
TxAsWritten(r, V) ==
  /\ (r.commit = "done") <=> (r.fnOutcome = "resolved")
  /\ r.fnOutcome = "threw" => (r.outcome = "rejected" /\ r.err = r.fnErr)
  /\ r.fnWrites # {} => ((r.fnWrites \subseteq V) <=> (r.commit = "done"))

\* the claim with the failures of COMMIT and ROLLBACK accounted for
TxAmended(r, V) ==
  /\ r.commit = "done" => (r.fnOutcome = "resolved" /\ r.fnWrites \subseteq V)
  /\ r.fnOutcome = "resolved" => r.commit \in {"done", "failed"}
  /\ r.commit # "done" => (r.outcome = "rejected" /\ r.fnWrites \cap V = {})
  /\ r.fnOutcome = "threw" =>
       (r.commit = "none" /\ r.outcome = "rejected" /\ r.err \in {r.fnErr, "rollback"})
  /\ (r.commit = "failed" /\ r.outcome = "rejected") => r.err \in {"engine", "rollback"}

\* C2 (amended): with one caller at a time, on IndexedDbAdapter, SqlJsAdapter,
\* CapacitorSqliteAdapter and PostgresAdapter, transaction(fn) commits exactly when
\* fn resolves and the COMMIT statement succeeds; when fn throws, or COMMIT fails, it
\* issues ROLLBACK and throws the original error, or the ROLLBACK failure if ROLLBACK
\* fails; a read after the call sees fn's writes if and only if COMMIT succeeded.
C2_TransactionCommitsOrRollsBack ==
  /\ TxReturned => TxAmended(call, db[1])
  /\ \A t \in Tasks : PgTxReturned(t) => TxAmended(task[t], pgRows)

\* C2 witness: a PostgresAdapter transaction whose fn wrote and resolved, whose
\* COMMIT failed, and which rolled back and threw.
C2_Witness ==
  \E t \in Tasks :
    /\ PgTxReturned(t)
    /\ task[t].fnWrites # {} /\ task[t].fnOutcome = "resolved"
    /\ task[t].commit = "failed" /\ task[t].outcome = "rejected"
    /\ task[t].fnWrites \cap pgRows = {}

\* C2 as written: transaction(fn) commits exactly when fn resolves, rethrows fn's own
\* error when fn throws, and a read sees fn's writes iff the transaction committed.
C2_AsWritten ==
  /\ TxReturned => TxAsWritten(call, db[1])
  /\ \A t \in Tasks : PgTxReturned(t) => TxAsWritten(task[t], pgRows)

\* C3: when BetterSqliteAdapter.transaction(fn) has returned and fn performed a
\* run: if fn threw, the call rejected with fn's error and none of fn's writes
\* remain; if fn resolved, the call resolved and all of fn's writes are present.
C3_AsyncTransactionAtomic ==
  (/\ component = "better-sqlite3"
   /\ pc = "idle" /\ call.op = "transaction" /\ call.fnWrites # {}
   /\ db # Null)
    => /\ call.fnOutcome = "threw" =>
            /\ call.outcome = "rejected" /\ call.err = call.fnErr
            /\ call.fnWrites \cap db[1] = {}
       /\ call.fnOutcome = "resolved" =>
            /\ call.outcome = "resolved"
            /\ call.fnWrites \subseteq db[1]

\* task t's transaction(fn) holds a pooled client
PgInTx(t) == task[t].op = "transaction" /\ task[t].client # NoClient

\* C4: in a PostgresAdapter whose calls never overlap, while transaction(fn) runs
\* its client is checked out, is the slot while fn runs, and carries every statement
\* of fn and the only open session transaction; once the call has returned, on any
\* exit path, the client was released exactly once, no session transaction is left
\* open, the slot is empty, and statements issued afterwards went through the pool.
C4_PinnedClientReleasedOnce ==
  (component = "postgres" /\ ~overlapped) =>
    /\ \A t \in Tasks : PgInTx(t) =>
         /\ task[t].execs \subseteq {task[t].client}
         /\ task[t].pc # "idle" =>
              /\ task[t].releases = 0 /\ free = Clients \ {task[t].client}
              /\ task[t].pc = "fn" => /\ transactionalClient = task[t].client
                                      /\ pgTx[task[t].client] # Null
              /\ \A c \in Clients \ {task[t].client} : pgTx[c] = Null
         /\ task[t].pc = "idle" => task[t].releases = 1
    /\ AllIdle => /\ transactionalClient = NoClient /\ free = Clients
                  /\ \A c \in Clients : pgTx[c] = Null
    /\ \A t \in Tasks :
         (task[t].op \in DataOps \ {"transaction"} /\ task[t].outcome = "resolved")
           => task[t].execs = {ThePool}

\* C4 witness: fn wrote through the adapter, COMMIT failed and then ROLLBACK failed;
\* the client is back in the pool, released once, and the slot is empty.
C4_Witness ==
  /\ component = "postgres" /\ ~overlapped
  /\ \E t \in Tasks :
       /\ PgInTx(t) /\ task[t].pc = "idle"
       /\ task[t].fnWrites # {} /\ task[t].execs = {task[t].client}
       /\ task[t].commit = "failed" /\ task[t].err = "rollback"
       /\ task[t].releases = 1
  /\ transactionalClient = NoClient /\ free = Clients

\* C5: on a PostgresAdapter, overlapping calls included, every statement issued by
\* a transaction's fn ran on that transaction's own client, and every statement
\* issued outside any transaction ran through the pool.
C5_OverlappingCallsIsolated ==
  component = "postgres" =>
    \A t \in Tasks :
      /\ PgInTx(t) => task[t].execs \subseteq {task[t].client}
      /\ (task[t].op \in DataOps \ {"transaction"} /\ task[t].outcome = "resolved")
           => task[t].execs = {ThePool}

\* the lifecycle's moves; leaving ERROR by a new open() or close() is let pass
LifecycleMoves ==
  {<<"closed", "opening">>, <<"opening", "open">>, <<"open", "closing">>,
   <<"closing", "closed">>, <<"opening", "error">>, <<"closing", "error">>,
   <<"error", "opening">>, <<"error", "closing">>}

\* C6: every change of BaseStorageAdapter.state is a move of the lifecycle
\* CLOSED -> OPENING -> OPEN -> CLOSING -> CLOSED, or from OPENING or CLOSING to
\* ERROR; in particular never OPENING -> CLOSING, CLOSING -> OPEN or CLOSED -> OPEN.
C6_LifecycleOrder ==
  [][(component = "base" /\ state' # state) => <<state, state'>> \in LifecycleMoves]_vars

\* this step is a call of BaseStorageAdapter.open()
OpenCalled ==
  /\ component = "base" /\ call'.op = "open"
  /\ opening' >= opening /\ closing' = closing /\ performed' = performed
  /\ <<call, state, opening>>' # <<call, state, opening>>

\* C7: open() called while the state is OPENING is rejected at once with the
\* already-opening error, starts no performOpen, and leaves the state and the
\* performOpen in flight as they were.
C7_SecondOpenFailsFast ==
  [][(OpenCalled /\ state = "opening") =>
       /\ call'.outcome = "rejected" /\ call'.err = "AlreadyOpening"
       /\ opening' = opening /\ state' = "opening"]_vars

\* C7 witness: an open() was refused while the first performOpen is still in flight.
C7_Witness ==
  /\ component = "base" /\ state = "opening" /\ opening = 1
  /\ call.op = "open" /\ call.outcome = "rejected" /\ call.err = "AlreadyOpening"

\* this step is the single caller starting run/exec/transaction/get/all on a handle
\* it never opened or has closed
CalledWhileNotOpen ==
  /\ component \in {"indexeddb", "sqljs", "capacitor", "better-sqlite3"}
  /\ pc = "idle" /\ call.life \in {"new", "closed"}
  /\ call' # call /\ call'.op \in DataOps

\* this step is task t starting such a call on a PostgresAdapter never opened or closed
PgCalledWhileNotOpen(t) ==
  /\ component = "postgres" /\ call.life \in {"new", "closed"}
  /\ task[t].pc = "idle" /\ task'[t] # task[t] /\ task'[t].op \in DataOps

\* this step is such a call on a BaseStorageAdapter whose state is not OPEN
BaseCalledWhileNotOpen ==
  /\ component = "base" /\ state # "open"
  /\ call' # call /\ call'.op \in DataOps

\* C8: run, exec, transaction, get and all called on a handle that is not open
\* (never opened, closed, or a BaseStorageAdapter in any state but OPEN) are
\* rejected with the not-open error, execute nothing, and leave the handle's state
\* and the persisted data as they were.
C8_NotOpenRejected ==
  [][/\ CalledWhileNotOpen =>
          /\ call'.outcome = "rejected" /\ call'.err = "NotOpen"
          /\ UNCHANGED <<pc, engineVars, idbVars, fileVars>>
     /\ \A t \in Tasks : PgCalledWhileNotOpen(t) =>
          /\ task'[t].outcome = "rejected" /\ task'[t].err = "NotOpen"
          /\ task'[t].pc = "idle"
          /\ UNCHANGED <<pool, transactionalClient, free, pgRows, pgTx>>
     /\ BaseCalledWhileNotOpen =>
          /\ call'.outcome = "rejected" /\ call'.err = "NotOpen"
          /\ UNCHANGED baseVars]_vars

\* C8 witness: a transaction() was refused on a BaseStorageAdapter that is CLOSING
\* after it had executed a statement while open.
C8_Witness ==
  /\ component = "base" /\ state = "closing" /\ performed # {}
  /\ call.op = "transaction" /\ call.outcome = "rejected" /\ call.err = "NotOpen"

\* the names of the candidates attempted so far
AttemptedNames == [i \in 1..Len(attempts) |-> attempts[i].name]

\* C9: the candidates attempted are, in order, the first ones of the priority
\* list, each begun only after the one before it failed; a candidate whose factory
\* and open() both succeeded is the last one attempted, and the resolver has
\* returned its adapter, open.
C9_FirstSuccessReturned ==
  component = "resolver" =>
    /\ Len(attempts) <= Len(candidates)
    /\ AttemptedNames = SubSeq(candidates, 1, Len(attempts))
    /\ \A i \in 1..Len(attempts) :
         /\ i < Len(attempts) => attempts[i].end \in {"factory", "open"}
         /\ attempts[i].end = "ok" =>
              /\ i = Len(attempts) /\ rpc = "returned"
              /\ result = Some([name |-> candidates[i], open |-> TRUE])
    /\ rpc = "returned" => /\ attempts # <<>>
                           /\ attempts[Len(attempts)].end = "ok"
    /\ rpc # "returned" => result = Null

\* C9 witness: the second candidate was returned after the first one failed in open().
C9_Witness ==
  /\ component = "resolver" /\ rpc = "returned"
  /\ Len(attempts) = 2 /\ Len(candidates) > 2
  /\ attempts[1].end = "open" /\ attempts[2].end = "ok"
  /\ result = Some([name |-> candidates[2], open |-> TRUE])

\* C10: when resolveStorageAdapter has thrown, every candidate was attempted and
\* failed, and causes holds one error per candidate, in attempt order, each from
\* the stage (factory or open) at which that candidate failed; while it runs, the
\* errors collected are those of the failed attempts, in order.
C10_CausesOnePerCandidate ==
  component = "resolver" =>
    /\ rpc = "threw" =>
         /\ Len(attempts) = Len(candidates)
         /\ Len(errors) = Len(candidates)
         /\ result = Null
    /\ Len(errors) = Cardinality({i \in 1..Len(attempts) :
                                    attempts[i].end \in {"factory", "open"}})
    /\ \A i \in 1..Len(errors) :
         /\ errors[i].of = i
         /\ errors[i].stage = attempts[i].end

\* C10 witness: three candidates failed, in factory and in open(), and the resolver
\* threw with three causes.
C10_Witness ==
  /\ component = "resolver" /\ rpc = "threw"
  /\ Len(candidates) = 3 /\ Len(errors) = 3
  /\ errors[1].stage = "factory" /\ errors[2].stage = "open"

\* the kinds the resolver's switch names (src/resolver.js has no postgres case)
KnownKinds ==
  IF ropts.compiled THEN {"better-sqlite3", "capacitor", "sqljs"}
  ELSE {"postgres", "better-sqlite3", "capacitor", "sqljs"}

\* C11: the first candidate resolveStorageAdapter attempts is the adapter named by
\* STORAGE_ADAPTER when that is set to a known kind, whether or not a priority list
\* was passed, and the head of the priority list when STORAGE_ADAPTER is not set.
C11_OverrideComesFirst ==
  (component = "resolver" /\ attempts # <<>>) =>
    /\ ropts.env \in KnownKinds => attempts[1].name = ropts.env
    /\ (ropts.env = "unset" /\ ropts.priority # <<>> /\ ropts.priority[1] \in KnownKinds)
         => attempts[1].name = ropts.priority[1]

\* the engine's content as of its last committed point
Committed == IF txBase # Null THEN txBase ELSE db

\* C12: every snapshot handed to the KV store (by a timer tick, close or a
\* write-through) is the database as of a committed point: it never holds the
\* uncommitted writes of a transaction that is between BEGIN and COMMIT/ROLLBACK.
C12_SnapshotsAreCommitted ==
  [][(component = "indexeddb" /\ Len(puts') > Len(puts))
       => puts'[Len(puts')].data = Committed']_vars

\* C13: with autoSave on, a row committed to the open engine is eventually in the
\* stored blob (or the handle is closed or the row replaced by an import), given
\* that the timer keeps ticking and puts succeed, with no further call needed.
C13_CommittedWriteBecomesDurable ==
  \A k \in Keys :
    (component = "indexeddb" /\ autoSave /\ db # Null /\ txBase = Null /\ k \in db[1])
      ~> (db = Null \/ k \notin db[1] \/ (blob # Null /\ k \in blob[1]))

\* C14: with autoSave on, the first mutating run/exec after open(), made while
\* nothing is dirty and no put is in flight, starts a put of the exported database
\* that the operation waits for before it returns.
C14_FirstMutationWrittenThrough ==
  [][(/\ component = "indexeddb" /\ autoSave /\ pc = "idle"
      /\ call.op = "open" /\ call.outcome = "resolved"
      /\ ~dirty /\ puts = <<>>
      /\ call'.op \in {"run", "exec"} /\ dirty')
       => (pc' = "wait" /\ puts' = <<[data |-> db', by |-> "call"]>>)]_vars

\* C15: whenever IndexedDbAdapter.close() has returned normally, dirty is false.
C15_CloseLeavesClean ==
  (component = "indexeddb" /\ pc = "idle"
     /\ call.op = "close" /\ call.outcome = "resolved")
    => ~dirty

\* close() returned normally after its own final put stored rows (no timer)
C15_Witness ==
  /\ component = "indexeddb" /\ ~autoSave /\ pc = "idle"
  /\ call.op = "close" /\ call.outcome = "resolved"
  /\ closedRows # Null /\ closedRows[1] # {} /\ blob = closedRows

\* C16: when importDatabase(bytes) has returned normally, the engine holds the
\* imported database, the stored blob equals it and dirty is false, with autoSave
\* on or off.
C16_ImportReplacesAndPersists ==
  (component = "indexeddb" /\ pc = "idle"
     /\ call.op = "import" /\ call.outcome = "resolved")
    => (db = call.data /\ blob = call.data /\ txBase = Null /\ ~dirty)

\* an import of a non-empty database returned normally with autoSave off
C16_Witness ==
  /\ component = "indexeddb" /\ ~autoSave /\ pc = "idle"
  /\ call.op = "import" /\ call.outcome = "resolved"
  /\ call.data = Some({1}) /\ blob = Some({1})

\* a run/get/all call with a parameter object has handed its query to the driver
NamedQuerySent ==
  /\ component = "translator" /\ call.op \in {"run", "get", "all"}
  /\ parameters.kind = "object" /\ sent # <<>>

\* the positions of the statement holding a named placeholder
NamedAt == {i \in 1..Len(statement) : statement[i].t \in Names}

C18_UnresolvedNameIsBindError ==
  (/\ component = "translator" /\ call.op \in {"run", "get", "all"}
   /\ parameters.kind = "object"
   /\ \E i \in NamedAt : statement[i].t \notin DOMAIN parameters.map)
    => (sent = <<>> /\ call.outcome = "rejected" /\ call.err = "bind")

\* a run/get/all call with a parameter array has handed its query to the driver
PositionalQuerySent ==
  /\ component = "translator" /\ call.op \in {"run", "get", "all"}
  /\ parameters.kind = "array" /\ sent # <<>>

\* C19: for positional parameters the k-th `?` of the statement becomes $k, the
\* rest of the statement is unchanged, and the values are passed in the caller's
\* order, so $k is bound to the k-th value supplied.
C19_PositionalInOrder ==
  PositionalQuerySent =>
    LET q == sent[1]
        marks == {i \in 1..Len(statement) : statement[i].t = "?"}
    IN  /\ Len(q.text) = Len(statement)
        /\ \A i \in 1..Len(statement) :
             q.text[i] = IF i \in marks
                           THEN Dollar(Cardinality({j \in marks : j <= i}))
                           ELSE statement[i]
        /\ Len(q.values) = Len(parameters.items)
        /\ \A n \in 1..Len(parameters.items) : q.values[n] = parameters.items[n]

\* two `?` were sent as $1 and $2 with two different values
C19_Witness ==
  /\ PositionalQuerySent
  /\ Cardinality({i \in 1..Len(statement) : statement[i].t = "?"}) = 2
  /\ parameters.items = <<"u", "v">>
  /\ \E i \in 1..Len(sent[1].text) : sent[1].text[i] = Dollar(2)

\* the positions of `;` in the script that are outside a quoted literal
TopLevelAt ==
  {i \in 1..Len(statement) :
     /\ statement[i].t = ";"
     /\ Cardinality({j \in 1..i : statement[j].t = "'"}) % 2 = 0}

\* the script cut at its top-level `;` only, each piece trimmed, empty ones dropped
TopLevelStatements ==
  LET bounds == {0} \cup TopLevelAt \cup {Len(statement) + 1}
      nth(n) == CHOOSE b \in bounds : Cardinality({c \in bounds : c < b}) = n - 1
      pieces == [n \in 1..(Cardinality(bounds) - 1) |->
                   Trim(SubSeq(statement, nth(n) + 1, nth(n + 1) - 1))]
  IN  SelectSeq(pieces, LAMBDA piece : Len(piece) > 0)

\* C20: once exec(script) has returned normally, the statements it sent to the
\* driver are, in script order, the non-empty pieces of the script between its
\* top-level `;`: a `;` inside a quoted literal has not split a statement (scripts
\* whose quotes are balanced).
C20_SplitsAtTopLevelOnly ==
  (/\ component = "translator" /\ call.op = "exec"
   /\ pc = "idle" /\ call.outcome = "resolved"
   /\ Cardinality({i \in 1..Len(statement) : statement[i].t = "'"}) % 2 = 0)
    => [i \in 1..Len(sent) |-> sent[i].text] = TopLevelStatements

\* C21: normaliseParameters gives the empty bundle for null, the same values in
\* the same order (nulls kept) as the positional part for an array, the named part
\* for an object and the one-element positional part for a scalar, never both
\* parts; a query prepared from a parameter array or scalar carries those values.
C21_NormaliseParameters ==
  component = "translator" =>
    LET n == normaliseParameters(parameters)
    IN  /\ ~(n.named # Null /\ n.positional # Null)
        /\ parameters.kind = "null" => (n.named = Null /\ n.positional = Null)
        /\ parameters.kind = "array" =>
             (n.positional # Null /\ n.positional[1] = parameters.items)
        /\ parameters.kind = "object" => (n.named # Null /\ n.named[1] = parameters.map)
        /\ parameters.kind = "scalar" =>
             (n.positional # Null /\ n.positional[1] = <<parameters.value>>)
        /\ (call.op \in {"run", "get", "all"} /\ sent # <<>>) =>
             /\ parameters.kind = "scalar" => sent[1].values = <<parameters.value>>
             /\ parameters.kind = "array" => sent[1].values = parameters.items

\* a scalar was passed with a statement holding one `?`, and an array with a null
C21_Witness ==
  /\ component = "translator" /\ call.op = "run" /\ sent # <<>>
  /\ \/ /\ parameters.kind = "scalar" /\ sent[1].values = <<"v">>
        /\ \E i \in 1..Len(statement) : sent[1].text[i] = Dollar(1)
     \/ /\ parameters.kind = "array" /\ sent[1].values = <<"null", "u">>

\* a batch call on an open BetterSqliteAdapter has returned
BatchReturned ==
  /\ component = "better-sqlite3" /\ call.op = "batch" /\ call.outcome = "resolved"

\* the BatchResult reports the failure of the enclosing transaction
Catastrophic(r) == \E n \in 1..Len(r.errors) : r.errors[n].index = -1

\* C22: the BatchResult of a batch over N operations has successful + failed = N;
\* when the transaction did not fail, results has one entry per successful
\* operation and errors one per failed operation, carrying its index; on
\* catastrophic failure successful = 0 and failed = N.
C22_BatchResultCounts ==
  BatchReturned =>
    LET ops == call.data[1]
        r == call.returned[1]
        bad == {i \in 1..Len(ops) : OpThrows(ops[i])}
    IN  /\ r.successful + r.failed = Len(ops)
        /\ ~Catastrophic(r) =>
             /\ Len(r.results) = r.successful /\ Len(r.errors) = r.failed
             /\ r.failed = Cardinality(bad)
             /\ {r.errors[n].index + 1 : n \in 1..Len(r.errors)} = bad
        /\ Catastrophic(r) => (r.successful = 0 /\ r.failed = Len(ops))

\* a batch of a failing operation followed by a good one has returned
C22_Witness ==
  /\ BatchReturned /\ Len(call.data[1]) = 2
  /\ call.returned[1].successful = 1 /\ call.returned[1].failed = 1
  /\ call.returned[1].errors = <<[index |-> 0]>>

\* C23: a batch call applies every operation that does not throw, whatever the
\* others do, and commits them together; when the enclosing transaction fails the
\* engine is left as it was before the call; no transaction stays open.
C23_BatchAtomic ==
  [][(component = "better-sqlite3" /\ pc = "idle" /\ db # Null /\ call'.op = "batch")
       => LET ops == call'.data[1]
              r == call'.returned[1]
              good == {ops[i] : i \in {j \in 1..Len(ops) : ~OpThrows(ops[j])}}
          IN  /\ txBase' = Null
              /\ IF Catastrophic(r) THEN db' = db
                                    ELSE db' = Some(db[1] \cup good)]_vars

\* a batch whose first operation failed and whose second inserted row 2 returned
C23_Witness ==
  /\ BatchReturned /\ call.data = Some(<<0, 2>>)
  /\ ~Catastrophic(call.returned[1]) /\ db # Null /\ 2 \in db[1]

\* the adapters with one caller and an engine held in this.db
EngineAdapters == {"indexeddb", "sqljs", "capacitor", "better-sqlite3"}

\* this step is the single caller's call of method o, made while idle
SingleCalls(o) ==
  /\ component \in EngineAdapters /\ pc = "idle"
  /\ call'.op = o /\ (call' # call \/ puts' = puts)

\* this step is a call of open() or close() on the PostgresAdapter, no other call
\* being outstanding
PgCalls(o) ==
  /\ component = "postgres" /\ AllIdle /\ call'.op = o
  /\ task' = task /\ (call' # call \/ pgRows' = pgRows)

\* C24: open() on a handle that is already open returns without error and changes
\* nothing: not the engine, pool or connection, not the timer, not the lifecycle
\* state, not the data in memory or persisted.
C24_OpenWhenOpenIsNoOp ==
  [][/\ (SingleCalls("open") /\ db # Null) =>
          /\ call'.outcome = "resolved"
          /\ UNCHANGED <<pc, engineVars, idbVars, fileVars>>
     /\ (PgCalls("open") /\ pool) =>
          /\ call'.outcome = "resolved"
          /\ UNCHANGED pgVars
     /\ (OpenCalled /\ state = "open") =>
          /\ call'.outcome = "resolved"
          /\ UNCHANGED baseVars]_vars

\* open() returned on an IndexedDbAdapter that holds a row not yet stored: the
\* engine was not rebuilt from the blob
C24_Witness ==
  /\ component = "indexeddb" /\ pc = "idle"
  /\ call.op = "open" /\ call.outcome = "resolved"
  /\ db # Null /\ db[1] # {} /\ blob = Null /\ dirty /\ saveTimer

\* this step is a call of BaseStorageAdapter.close()
CloseCalled ==
  /\ component = "base" /\ call'.op = "close"
  /\ closing' >= closing /\ opening' = opening /\ performed' = performed
  /\ <<call, state, closing>>' # <<call, state, closing>>

\* C25: close() on a handle that is already closed returns without error and
\* leaves the handle and its persisted data as they were.
C25_CloseWhenClosedIsNoOp ==
  [][/\ (SingleCalls("close") /\ db = Null) =>
          /\ call'.outcome = "resolved"
          /\ UNCHANGED <<pc, engineVars, idbVars, fileVars>>
     /\ (PgCalls("close") /\ ~pool) =>
          /\ call'.outcome = "resolved"
          /\ UNCHANGED pgVars
     /\ (CloseCalled /\ state = "closed") =>
          /\ call'.outcome = "resolved"
          /\ UNCHANGED baseVars]_vars

\* close() returned at once on a BaseStorageAdapter that had been open and closed
C25_Witness ==
  /\ component = "base" /\ state = "closed" /\ closing = 0 /\ performed # {}
  /\ call.op = "close" /\ call.outcome = "resolved"

\* C26: on a SqlJsAdapter opened with a filePath, when a run, an exec or a
\* committed transaction has returned normally the file holds the engine's content,
\* and when close() returns the file holds the content the engine had when it was
\* closed.
C26_FileFollowsEngine ==
  [][(component = "sqljs" /\ filePath /\ pc' = "idle" /\ call'.outcome = "resolved") =>
       /\ (call'.op \in {"run", "exec", "transaction"} /\ db' # Null) => file' = db'
       /\ (call'.op = "close" /\ pc = "idle" /\ db # Null /\ db' = Null) => file' = db]_vars

\* close() returned on an adapter with a filePath whose file holds both rows
C26_Witness ==
  /\ component = "sqljs" /\ filePath /\ pc = "idle"
  /\ call.op = "close" /\ call.outcome = "resolved"
  /\ db = Null /\ file = Some({1, 2})

\* C27: when backup() completes with maxBackups = M >= 1, at most M of the keys
\* it listed under the prefix remain, the number deleted is exactly the excess
\* over M, and every deleted key is smaller than every key that remains.
BackupCompleted ==
  /\ component = "backup" /\ pc = "idle" /\ maxBackups >= 1
  /\ call.op = "backup" /\ call.outcome = "resolved"

TypeForced ==
  /\ component = "resolver" /\ rpc # "create"
  /\ dbOptions.type # "none" /\ dbOptions.priority = <<>>

C28_TypeSelectsOneKind ==
  TypeForced =>
    /\ ropts.priority = <<typeMap(dbOptions.type)>>
    /\ (ropts.env = "unset" /\ ~ropts.compiled) =>
         \A i \in 1..Len(attempts) : attempts[i].name = typeMap(dbOptions.type)

\* a sync cycle that ran to its end
CycleDone ==
  /\ component = "sync" /\ pc = "idle"
  /\ call.op = "sync" /\ call.outcome = "resolved" /\ call.returned = Some("synced")

\* the ids the cycle found on both sides
OnBothSides == Ids(cycle.before) \cap Ids(cycle.remoteBefore)

\* the record last-write-wins lets survive for id: a function of the two
\* records alone
Survivor(id) ==
  LET l == Row(cycle.before, id)
      r == Row(cycle.remoteBefore, id)
  IN  IF l.updated_at > r.updated_at THEN l ELSE r

AbsentLocally ==
  IF sync.direction = "push-only" THEN {}
  ELSE Ids(cycle.remoteBefore) \ Ids(cycle.before)

DefaultOrder ==
  IF ropts.postgresConnection THEN <<"postgres", "better-sqlite3", "sqljs">>
  ELSE <<"better-sqlite3", "sqljs">>

C36_FileIsCommittedState ==
  (/\ component = "sqljs" /\ filePath /\ pc = "idle"
   /\ db # Null /\ txBase = Null /\ file # Null) => file = db

\* C33: IndexedDbAdapter: whenever the handle is open, dirty is false and no KV
\* put is in flight, what the store holds under "db" is the export of the
\* current in-memory database (nothing stored counting as the empty database).
C33_CleanMeansPersisted ==
  (component = "indexeddb" /\ db # Null /\ ~dirty /\ puts = <<>>) => LoadedRows = db[1]

\* a put was started by the timer in this step
TickWrites ==
  /\ Len(puts') = Len(puts) + 1 /\ puts'[Len(puts')].by = "tick"

\* the oldest put ended in this step without storing its snapshot
PutFailed ==
  /\ puts # <<>> /\ puts' = Tail(puts) /\ blob' # Head(puts).data

C34_OneInterval ==
  [][component = "indexeddb" =>
       /\ intervals' <= 1
       /\ (call'.op = "close" /\ call'.outcome = "resolved" /\ opens' = opens)
            => intervals' = 0]_vars

\* C32: when open() has failed the handle is not open: the PostgresAdapter holds
\* no pool and an engine adapter no connection, so that operations fail as not
\* open and a later open() connects again; a BaseStorageAdapter whose performOpen
\* rejected throws from assertOpen and starts performOpen again on the next
\* open().
C32_FailedOpenLeavesClosed ==
  [][/\ (component = "postgres" /\ call'.op = "open" /\ call'.outcome = "rejected")
          => (~pool' /\ GetExecutor' = "NotOpen")
     /\ (component \in EngineAdapters /\ call'.op = "open" /\ call'.outcome = "rejected")
          => db' = Null
     /\ (component = "base" /\ state = "error")
          => (AssertOpenThrows /\ (OpenCalled => (state' = "opening" /\ opening' = opening + 1)))
    ]_vars

\* C37: for the key backup() returns under any format, compression, prefix and
\* includeTimestamp, restore(key) gunzips exactly when the backup was
\* gzip-compressed and uses the JSON importer exactly when its format was json,
\* the SQL importer otherwise.
C37_RestoreMatchesBackup ==
  (/\ component = "backup" /\ call.op = "restore" /\ call.outcome = "resolved") =>
    /\ call.returned[1].gunzip = (call.data[1].compression = "gzip")
    /\ call.returned[1].importer = call.data[1].format

\* C38: the CloudBackupManager has at most one interval set, and it is the one
\* intervalId names; start() while started throws and leaves the schedule as it
\* is; stop() while not started changes nothing; a scheduled backup begins only
\* while the manager is started.
C38_OneSchedule ==
  [][component = "backup" =>
       /\ timers' = (IF intervalId' THEN 1 ELSE 0)
       /\ (call'.op = "start" /\ call' # call /\ intervalId)
            => (call'.outcome = "rejected" /\ intervalId' /\ timers' = timers)
       /\ (call'.op = "stop" /\ call' # call /\ ~intervalId)
            => (~intervalId' /\ timers' = timers)
       /\ scheduled' > scheduled => (intervalId /\ timers = 1)]_vars

C38_Witness ==
  /\ component = "backup" /\ scheduled > 0 /\ intervalId /\ timers = 1
  /\ call.op = "start" /\ call.outcome = "rejected"

\* C31: at most one sync cycle of a manager is in progress at any time; a
\* request (sync(), a timer tick, a mutation) that arrives while a cycle is in
\* progress starts no cycle; in the auto and realtime modes it enqueues the next
\* cycle, which starts only when no cycle is in progress, and does start.
RequestWhileSyncing == syncing /\ UNCHANGED <<pc, local, remote, lastSync>>

C31_OneCycleAtATime ==
  /\ [][component = "sync" =>
          /\ running' <= 1
          /\ RequestWhileSyncing => (running' = running /\ cycle' = cycle)
          /\ (queued' /\ ~queued) => (syncing /\ mode \in Queueing /\ running' = running)
          /\ (queued /\ ~queued') => (running = 0 /\ cycle'.count = cycle.count + 1)]_vars
  /\ ((component = "sync" /\ queued) ~> (component = "sync" /\ ~queued))

C31_Witness ==
  /\ component = "sync" /\ mode = "realtime" /\ ~queued /\ running = 1
  /\ cycle.count = 2 /\ pc = "push"

====
